---- MODULE Spec2Model ----
(***************************************************************************)
(* Crawl-and-sync engine of the geofiles scraper: the paging controller,   *)
(* the link classifier, the identifier allowlist, the artifact transfer    *)
(* and the progress file, as implemented in                                *)
(*   src/geofiles_scraper/scrape.py                      (impl = "s3")     *)
(*   src/scraping tool/geofiles_scraper_local/scrape_local.py ("local")    *)
(* Text is modelled as sequences of one-character strings so that          *)
(* basename, lower(), substring tests, the allowlist regular expression    *)
(* and the progress-file format are computed, not assumed.                 *)
(***************************************************************************)
EXTENDS Integers, Sequences, FiniteSets, TLC

(* ------------------------------ bounds -------------------------------- *)
\* largest page number the "last page" control of the listing encodes
MaxTotal == 3
\* number of crawl runs started one after another in one behaviour
MaxRuns == 2
\* number of upload_to_s3 calls in a row in the specification of the sink alone
MaxCalls == 3

(* --------------------------- text primitives --------------------------- *)
UpperChars ==
    <<"A","B","C","D","E","F","G","H","I","J","K","L","M","N","O","P","Q","R","S","T","U","V",
      "W","X","Y","Z">>

LowerChars ==
    <<"a","b","c","d","e","f","g","h","i","j","k","l","m","n","o","p","q","r","s","t","u","v",
      "w","x","y","z">>

DigitChars ==
    <<"0","1","2","3","4","5","6","7","8","9">>

Range(s) == {s[n] : n \in DOMAIN s}

\* str.lower() on one character
LowerChar(c) ==
    IF \E n \in DOMAIN UpperChars : UpperChars[n] = c
    THEN LowerChars[CHOOSE n \in DOMAIN UpperChars : UpperChars[n] = c]
    ELSE c

\* str.lower()
Lower(s) == [n \in DOMAIN s |-> LowerChar(s[n])]

\* the character class [A-Za-z0-9] of the allowlist pattern
IsAlnum(c) == c \in Range(UpperChars) \cup Range(LowerChars) \cup Range(DigitChars)

\* s[p .. p+Len(t)-1] = t
MatchAt(s, t, p) == p >= 1 /\ p + Len(t) - 1 <= Len(s) /\ SubSeq(s, p, p + Len(t) - 1) = t

\* Python's  t in s
Contains(s, t) == \E p \in 1..(Len(s) + 1) : MatchAt(s, t, p)

\* str.startswith / str.endswith
StartsWith(s, t) == MatchAt(s, t, 1)
EndsWith(s, t) == MatchAt(s, t, Len(s) - Len(t) + 1)

\* positions of "/" in s
Slashes(s) == {n \in DOMAIN s : s[n] = "/"}

LastSlash(s) == IF Slashes(s) = {} THEN 0 ELSE CHOOSE n \in Slashes(s) : \A m \in Slashes(s) : m <= n

\* os.path.basename: what follows the last "/"
Basename(s) == SubSeq(s, LastSlash(s) + 1, Len(s))

\* str.rstrip('/')
RECURSIVE RStripSlash(_)
RStripSlash(s) == IF s # <<>> /\ s[Len(s)] = "/" THEN RStripSlash(SubSeq(s, 1, Len(s) - 1)) ELSE s

\* str.replace('/', r) with r a (possibly empty) text
RECURSIVE ReplaceSlash(_, _)
ReplaceSlash(s, r) ==
    IF s = <<>> THEN <<>>
    ELSE (IF Head(s) = "/" THEN r ELSE <<Head(s)>>) \o ReplaceSlash(Tail(s), r)

\* str.split('/')
RECURSIVE SplitSlash(_)
SplitSlash(s) ==
    IF Slashes(s) = {} THEN <<s>>
    ELSE LET p == CHOOSE n \in Slashes(s) : \A m \in Slashes(s) : n <= m
         IN  <<SubSeq(s, 1, p - 1)>> \o SplitSlash(SubSeq(s, p + 1, Len(s)))

\* urljoin(base, ref) for a ref that is a plain relative path: the ref replaces
\* what follows the last "/" of the base
urljoin(base, ref) == SubSeq(base, 1, LastSlash(base)) \o ref

(* ------------------------- program constants --------------------------- *)
BASE_URL ==
    <<"h","t","t","p","s",":","/","/","g","i","s",".","g","o","v",".","n","l",".","c","a","/",
      "m","i","n","e","s","e","n","/","g","e","o","f","i","l","e","s","/">>

EXTERNAL_PREFIX ==
    <<"h","t","t","p","s",":","/","/","w","w","w",".","g","o","v",".","n","l",".","c","a","/",
      "i","e","t","/","m","i","n","e","s","-","g","e","o","s","c","i","e","n","c","e","-","r",
      "e","p","o","r","t","s","-","m","a","p","s","-","d","o","c","s">>

KwMap ==
    <<"m","a","p">>

KwResearch ==
    <<"r","e","s","e","a","r","c","h">>

SKIP_KEYWORDS == {KwMap, KwResearch}

ExtPdf ==
    <<".","p","d","f">>

ExtZip ==
    <<".","z","i","p">>

\* the tuple ('.pdf', '.zip') of process()
ARTIFACT_EXTENSIONS == {ExtPdf, ExtZip}

Http ==
    <<"h","t","t","p">>

(* ------------------------ IdentifierAllowlist -------------------------- *)
\* load_allowed_ids without the forms joined from the first and last segment
Variants_whole(rid) ==
    {rid}
    \cup (IF Slashes(rid) # {}
          THEN {ReplaceSlash(rid, <<"_">>), ReplaceSlash(rid, <<>>)}
          ELSE {})

\* the variants load_allowed_ids derives from one raw identifier
Variants(rid) ==
    {rid}
    \cup (IF Slashes(rid) # {}
          THEN {ReplaceSlash(rid, <<"_">>), ReplaceSlash(rid, <<>>)}
               \cup (LET parts == SplitSlash(rid)
                     IN  IF Len(parts) = 3
                         THEN {parts[1] \o <<"_">> \o parts[3], parts[1] \o parts[3]}
                         ELSE {})
          ELSE {})

\* load_allowed_ids, from the raw identifiers read out of the workbook; a
\* missing workbook gives the empty set
load_allowed_ids(rawIds) == UNION {Variants(rid) : rid \in rawIds}

\* re.compile(rf'(?<![A-Za-z0-9]){re.escape(i)}(?![A-Za-z0-9])', re.IGNORECASE).search(text)
PatternSearch(ident, text) ==
    LET folded == Lower(text)
        wanted == Lower(ident)
    IN  \E p \in 1..Len(text) :
           /\ MatchAt(folded, wanted, p)
           /\ (p = 1 \/ ~IsAlnum(text[p - 1]))
           /\ (p + Len(ident) - 1 = Len(text) \/ ~IsAlnum(text[p + Len(ident)]))

\* an allowlist test that treats an empty list as "no restriction"
is_allowed_by_open(ids, url) ==
    \/ ids = {}
    \/ \E ident \in ids : PatternSearch(ident, Basename(url)) \/ PatternSearch(ident, url)

\* is_allowed(url) against the patterns compiled from the identifiers ids
is_allowed_by(ids, url) ==
    \E ident \in ids : PatternSearch(ident, Basename(url)) \/ PatternSearch(ident, url)

(* ---------------------------- ProgressStore ---------------------------- *)
DigitVal(c) == (CHOOSE n \in DOMAIN DigitChars : DigitChars[n] = c) - 1

RECURSIVE DigitsToNat(_)
DigitsToNat(s) ==
    IF s = <<>> THEN 0 ELSE 10 * DigitsToNat(SubSeq(s, 1, Len(s) - 1)) + DigitVal(s[Len(s)])

RECURSIVE NatToDigits(_)
NatToDigits(n) == IF n < 10 THEN <<DigitChars[n + 1]>> ELSE NatToDigits(n \div 10) \o <<DigitChars[(n % 10) + 1]>>

\* str(i) of an integer
Str(n) == IF n < 0 THEN <<"-">> \o NatToDigits(-n) ELSE NatToDigits(n)

\* str.strip() for the blanks the file can hold
RECURSIVE LStrip(_)
LStrip(s) == IF s # <<>> /\ Head(s) = " " THEN LStrip(Tail(s)) ELSE s

RECURSIVE RStrip(_)
RStrip(s) == IF s # <<>> /\ s[Len(s)] = " " THEN RStrip(SubSeq(s, 1, Len(s) - 1)) ELSE s

Strip(s) == RStrip(LStrip(s))

\* str.lstrip("0")
RECURSIVE LStripZero(_)
LStripZero(s) == IF s # <<>> /\ Head(s) = "0" THEN LStripZero(Tail(s)) ELSE s

\* split(',')[0] left out: the whole text is handed to int()
FirstField_whole(s) == s

\* text.split(',')[0]
FirstField(s) ==
    LET commas == {n \in DOMAIN s : s[n] = ","}
    IN  IF commas = {} THEN s
        ELSE SubSeq(s, 1, (CHOOSE n \in commas : \A m \in commas : n <= m) - 1)

\* int(text): an optional sign followed by one or more decimal digits;
\* ok = FALSE stands for the ValueError
ParseInt(s) ==
    LET signed == s # <<>> /\ Head(s) \in {"+", "-"}
        body   == IF signed THEN Tail(s) ELSE s
    IN  IF body # <<>> /\ Range(body) \subseteq Range(DigitChars)
        THEN [ok |-> TRUE, val |-> IF signed /\ Head(s) = "-" THEN -DigitsToNat(body) ELSE DigitsToNat(body)]
        ELSE [ok |-> FALSE, val |-> 0]

\* the progress file: present or not, and its text
NoFile == [exists |-> FALSE, text |-> <<>>]

\* get_resume_page
get_resume_page(file) ==
    IF file.exists
    THEN LET r == ParseInt(Strip(FirstField(file.text)))
         IN  IF r.ok THEN r.val ELSE 1
    ELSE 1

TimeSep ==
    <<","," ","t","i","m","e",":"," ">>

DateSep ==
    <<","," ","d","a","t","e",":"," ">>

\* the wall clock readings datetime.now() can give, already laid out by
\* strftime: %I, %M, %p and %Y-%m-%d
Clock ==
    { [hh |-> <<"0","9">>, mm |-> <<"0","5">>, ap |-> <<"A","M">>,
       date |-> <<"2","0","2","5","-","0","6","-","0","1">>],
      [hh |-> <<"1","2">>, mm |-> <<"3","0">>, ap |-> <<"P","M">>,
       date |-> <<"2","0","2","5","-","0","6","-","0","2">>] }

\* datetime.now() when page i is saved: time goes on while the run walks, the
\* odd pages are saved on the first day's morning and the even ones on the
\* second day's afternoon
NowAt(i) == {now \in Clock : (now.ap = <<"A","M">>) <=> (i % 2 = 1)}

\* now.strftime("%I:%M %p")
TimeOfDay(now) == now.hh \o <<":">> \o now.mm \o <<" ">> \o now.ap

\* the record scrape.py writes: the hour loses its leading zero
ProgressRecord(i, now) == Str(i) \o TimeSep \o LStripZero(TimeOfDay(now)) \o DateSep \o now.date

\* the record scrape_local.py writes
ProgressRecordLocal(i, now) == Str(i) \o TimeSep \o TimeOfDay(now) \o DateSep \o now.date

(* ------------------------------ the site ------------------------------- *)
\* a raw identifier of the workbook with three "/"-delimited segments
RawId ==
    <<"1","A","/","2","/","3">>

\* what the workbook can hold: nothing (or no workbook), or the identifier
RawChoices == {{}, {RawId}}

\* hrefs of the listing pages
HrefReport ==
    <<"p","d","f","/","1","A","_","2","_","3",".","p","d","f">>

HrefDetail ==
    <<"h","t","t","p","s",":","/","/","w","w","w",".","g","o","v",".","n","l",".","c","a","/",
      "i","e","t","/","m","i","n","e","s","-","g","e","o","s","c","i","e","n","c","e","-","r",
      "e","p","o","r","t","s","-","m","a","p","s","-","d","o","c","s","-","o","p","e","n","-",
      "f","i","l","e","-","1","A","_","3","/">>

HrefMapSheet ==
    <<"p","d","f","/","M","a","p","_","1","A","3",".","P","D","F">>

HrefOther ==
    <<"h","t","t","p","s",":","/","/","g","i","s",".","g","o","v",".","n","l",".","c","a","/",
      "m","i","n","e","s","e","n","/","g","e","o","f","i","l","e","s","/","p","d","f","/","9",
      "9","9",".","z","i","p">>

HrefDetailOther ==
    <<"h","t","t","p","s",":","/","/","w","w","w",".","g","o","v",".","n","l",".","c","a","/",
      "i","e","t","/","m","i","n","e","s","-","g","e","o","s","c","i","e","n","c","e","-","r",
      "e","p","o","r","t","s","-","m","a","p","s","-","d","o","c","s","-","n","f","l","d","-",
      "7","7","7","/">>

HrefResearch ==
    <<"p","d","f","/","r","e","s","e","a","r","c","h","_","9",".","p","d","f">>

\* a listing-level link to a file that detail pages link to as well
HrefScan ==
    <<"p","d","f","/","1","a","2","3",".","p","d","f">>

\* a listing-level link to a file kept under the external prefix
HrefDocsScan ==
    <<"h","t","t","p","s",":","/","/","w","w","w",".","g","o","v",".","n","l",".","c","a","/",
      "i","e","t","/","m","i","n","e","s","-","g","e","o","s","c","i","e","n","c","e","-","r",
      "e","p","o","r","t","s","-","m","a","p","s","-","d","o","c","s","-","o","p","e","n","-",
      "f","i","l","e","-","1","A","_","3","/","1","a","2","3",".","p","d","f">>

\* hrefs of a detail page
HrefDetailArtifact ==
    <<"h","t","t","p","s",":","/","/","w","w","w",".","g","o","v",".","n","l",".","c","a","/",
      "i","e","t","/","f","i","l","e","s","/","1","a","2","3",".","p","d","f">>

HrefDetailText ==
    <<"b",".","t","x","t">>

\* an artifact filed in a directory named after an identifier: the identifier
\* is in the URL and not in the file name
HrefFiled ==
    <<"h","t","t","p","s",":","/","/","w","w","w",".","g","o","v",".","n","l",".","c","a","/",
      "i","e","t","/","f","i","l","e","s","/","1","A","_","3","/","s","c","a","n",".","p","d",
      "f">>

\* the anchors of listing page p, in document order; page 0 stands for the
\* empty markup process() gets when the content could not be read
Listing(p) ==
    IF p = 0 THEN <<>>
    ELSE CASE p % 3 = 1 -> <<HrefDetail, HrefReport>>
           [] p % 3 = 2 -> <<HrefMapSheet, HrefReport, HrefOther>>
           [] OTHER     -> <<HrefDetailOther, HrefResearch, HrefScan, HrefDocsScan>>

\* the markups a detail page can answer with; the second links to an allowed
\* page under the external prefix and to no artifact
DetailPages ==
    {<<HrefDetailArtifact, HrefDetailText>>, <<HrefDetail, HrefDetailText>>,
     <<HrefDetailArtifact, HrefDetailText, HrefOther>>}

\* full = href if href.startswith('http') else urljoin(base, href)
Resolve(base, href) == IF StartsWith(href, Http) THEN href ELSE urljoin(base, href)

\* full.lower().endswith(('.pdf', '.zip'))
IsArtifactUrl(url) == \E ext \in ARTIFACT_EXTENSIONS : EndsWith(Lower(url), ext)

\* the keyword test without .lower(): it misses Map_*.PDF and the like
HasSkipKeywordExact(filename) == \E kw \in SKIP_KEYWORDS : Contains(filename, kw)

\* any(kw in filename.lower() for kw in SKIP_KEYWORDS)
HasSkipKeyword(filename) == \E kw \in SKIP_KEYWORDS : Contains(Lower(filename), kw)

\* the resolved anchors of listing page p
ListingUrls(p) == [n \in DOMAIN Listing(p) |-> Resolve(BASE_URL, Listing(p)[n])]

\* every URL upload_to_s3 and process() can be given: the resolved anchors of
\* the listing pages and of the detail pages behind them, and the filed artifact
SiteUrls ==
    LET listed == UNION {Range(ListingUrls(p)) : p \in 1..3}
        linked == UNION {{Resolve(d, page[n]) : n \in DOMAIN page} : d \in listed, page \in DetailPages}
    IN  listed \cup linked \cup {HrefFiled}

\* the text functions of upload_to_s3 and process(), worked out once for every
\* URL of the site
UrlFacts ==
    [u \in SiteUrls |->
        [name     |-> Basename(u),
         skip     |-> HasSkipKeyword(Basename(u)),
         artifact |-> IsArtifactUrl(u),
         external |-> StartsWith(u, EXTERNAL_PREFIX),
         missing  |-> Basename(RStripSlash(u))]]

\* the identifier sets the script can have loaded
IdChoices == {load_allowed_ids(rawIds) : rawIds \in RawChoices}

\* is_allowed, worked out once for every loaded identifier set
AllowedUrls == [ids \in IdChoices |-> {u \in SiteUrls : is_allowed_by(ids, u)}]

\* the resolved anchors of every listing page, worked out once
SiteListing == [p \in 0..(MaxTotal + 1) |-> ListingUrls(p)]

\* u = link if link.startswith('http') else urljoin(full, link), worked out
\* once for every anchor of a detail page against every URL of the site
SiteLinks ==
    [base \in SiteUrls |-> [href \in UNION {Range(page) : page \in DetailPages} |-> Resolve(base, href)]]

\* every name an artifact of the site can be stored under
ArtifactNames == {UrlFacts[u].name : u \in {v \in SiteUrls : UrlFacts[v].artifact}}

(* ------------------------------- state --------------------------------- *)
VARIABLES
    impl,          \* which script runs: "s3" (scrape.py) or "local" (scrape_local.py)
    ALLOWED_IDS,   \* the identifier variants loaded when the script is imported
    resumeFile,    \* RESUME_FILE: [exists, text]
    missingFile,   \* MISSING_FILE: the names recorded, one per line
    dest,          \* the bucket / the downloads directory: name -> "absent", "full", "partial"
    pc,            \* where scraper_main stands; "idle" when no run is active
    run,           \* runs started so far
    outcome,       \* how the last run ended: "none" (it has not), "Done", "Aborted",
                   \* "Raised" (an exception nothing caught), "Killed"
    stoppedAt,     \* the value of pc at which the last run was Raised or Killed
    leave,         \* how the scrape loop was left: "none", "end" (range exhausted), "break"
    resume_page,   \* scraper_main's resume_page
    total,         \* scraper_main's total
    last,          \* what the look for the last-page control found when total was set: 0 when it
                   \* is absent, else the number it encodes; -1 before that and once paging began
    i,             \* the loop variable of the scrape loop
    display,       \* the listing page the browser session shows (0: none)
    html,          \* the listing page whose markup was read for this iteration (0: "")
    k,             \* the anchors of html handled so far by process()
    calls,         \* the upload_to_s3 calls of the process() step just taken, in order
    reads,         \* this run's iterations at their content read: <<i, page displayed>>
    saves,         \* this run's completed progress writes, in order
    held,          \* the page of the last record written completely to RESUME_FILE (0: none)
    replaced,      \* the value of held that the last completed write replaced
    torn,          \* a run was killed between the truncation and the write of a save
    handled,       \* the listing pages shown while a process() pass ran to its end, over all runs
    strategy,      \* the cascade strategy to attempt next while pc = "advance"
    tried,         \* the strategies attempted in the page advance under way or just over, each
                   \* with how it went: <<strategy, "ok" | "error" | "no_anchor" | "timeout" |
                   \* "late">>; "late": the navigation took place and the wait after it failed
    advLog,        \* the messages logged in the page advance under way or just over, and the
                   \* message that closes the run
    smooth,        \* no navigation strategy of this run has failed so far
    detail,        \* the external page the process() step just taken went to: <<>> or
                   \* [url, links, fetched, logged], logged = the length of MISSING_FILE before
    grab,          \* the content grab just made, until the page's first anchor is handled or
                   \* its progress saved: <<>> or [tries, pauses, got]
    failed,        \* the names whose transfer this run set out on and saw fail
    query,         \* the last question put to is_allowed outside a run: <<>> or
                   \* [workbook, text, answer]
    threads,       \* the threads the Start button has started that work through transfers
    pause_event,   \* scrape_all.py's pause_event: set or clear
    polls,         \* the "Paused" messages scrape_all.py has logged at the head of the iteration
    log_queue,     \* log_queue: the messages put and not yet taken, oldest first
    log_widget,    \* the lines of the log window, each the <<text, tag>> parts inserted for it
    emitted,       \* every message handed to gui_log so far, in the order of the calls
    gui            \* the window's update_log callback: "wait" (until root.after fires) or "drain"
                   \* under way, until its content is read
                   \* side by side: [at, call], at = "idle" or "store" (probed, not yet stored)

vars ==
    <<impl, ALLOWED_IDS, resumeFile, missingFile, dest, pc, run, outcome, stoppedAt, leave,
      resume_page, total, last, i, display, html, k, calls, reads, saves, held, replaced, torn, handled,
      strategy, tried, advLog, smooth, detail, grab, failed, query, threads, pause_event, polls,
      log_queue, log_widget, emitted, gui>>

config == <<impl, ALLOWED_IDS>>

pause == <<pause_event, polls>>

logging == <<log_queue, log_widget, emitted, gui>>
files == <<resumeFile, missingFile, dest>>
progress == <<saves, held, replaced, torn, handled>>
ending == <<outcome, stoppedAt>>
cascade == <<strategy, tried, advLog, smooth>>

(* ----------------------------- ArtifactSink ---------------------------- *)
\* an allowlist test that lets every URL through
is_allowed_any(url) == url \in SiteUrls

\* is_allowed(url)
is_allowed(url) == url \in AllowedUrls[ALLOWED_IDS]

\* what the network answers during one upload_to_s3 call:
\*   head  "answer"      the existence probe tells whether the object is there
\*         "denied"      head_object raises a ClientError whose code is not 404
\*         "unreachable" head_object raises an error that is no ClientError
\*   get   "ok"          the source is fetched and stored completely
\*         "refused"     requests.get or raise_for_status raises
\*         "broken"      the body breaks off while it is being streamed
Net == [head : {"answer", "denied", "unreachable"}, get : {"ok", "refused", "broken"}]

\* a network that answers every request
Quiet == [head |-> "answer", get |-> "ok"]

\* upload_to_s3(url) gets as far as the network: url is handed to it, its name
\* holds no skip keyword and is_allowed lets it through
Reaches(url) == UrlFacts[url].artifact /\ ~UrlFacts[url].skip /\ (impl = "all" \/ is_allowed(url))

\* the answers a call of the script that runs can meet: only scrape.py probes
\* over the network, the other scripts look for the file with os.path.exists
Answers == IF impl = "s3" THEN Net ELSE {net \in Net : net.head = "answer"}

\* the answers that matter to a call for url
NetFor(url) == IF Reaches(url) THEN Answers ELSE {Quiet}

\* the attempts the download_file of the earlier script made at a source
MAX_RETRIES == 3

\* one upload_to_s3 call as seen from outside: its result, whether it probed the
\* destination, fetched the source, wrote the destination, raised, the state of
\* the object before the call, and the destination after it; tries counts the
\* requests.get calls, of which a call that sets out on the fetch makes one
Call(url, result, probed, fetched, wrote, raised, d0, d1) ==
    [url |-> url, name |-> UrlFacts[url].name, result |-> result, probed |-> probed,
     fetched |-> fetched, tries |-> IF fetched THEN 1 ELSE 0, wrote |-> wrote, raised |-> raised,
     before |-> d0[UrlFacts[url].name], dest |-> d1]

\* upload_to_s3 without the head_object probe: every eligible URL is fetched
\* and stored again
upload_to_s3_unprobed(url, d, net) ==
    LET filename == UrlFacts[url].name
    IN  IF UrlFacts[url].skip THEN Call(url, "Skipped", FALSE, FALSE, FALSE, FALSE, d, d)
        ELSE IF ~is_allowed(url) THEN Call(url, "Skipped", FALSE, FALSE, FALSE, FALSE, d, d)
        ELSE IF net.get = "refused" THEN Call(url, "Failed", FALSE, TRUE, FALSE, TRUE, d, d)
        ELSE IF net.get = "broken" THEN Call(url, "Failed", FALSE, TRUE, FALSE, TRUE, d, d)
        ELSE Call(url, "Transferred", FALSE, TRUE, TRUE, FALSE, d, [d EXCEPT ![filename] = "full"])

\* upload_to_s3 of scrape.py
upload_to_s3(url, d, net) ==
    LET filename == UrlFacts[url].name
    IN  IF UrlFacts[url].skip THEN Call(url, "Skipped", FALSE, FALSE, FALSE, FALSE, d, d)
        ELSE IF ~is_allowed(url) THEN Call(url, "Skipped", FALSE, FALSE, FALSE, FALSE, d, d)
        ELSE IF net.head = "unreachable" THEN Call(url, "Failed", TRUE, FALSE, FALSE, TRUE, d, d)
        ELSE IF net.head = "denied" THEN Call(url, "Failed", TRUE, FALSE, FALSE, FALSE, d, d)
        ELSE IF d[filename] # "absent" THEN Call(url, "AlreadyExists", TRUE, FALSE, FALSE, FALSE, d, d)
        ELSE IF net.get = "refused" THEN Call(url, "Failed", TRUE, TRUE, FALSE, TRUE, d, d)
        ELSE IF net.get = "broken" THEN Call(url, "Failed", TRUE, TRUE, FALSE, TRUE, d, d)
        ELSE Call(url, "Transferred", TRUE, TRUE, TRUE, FALSE, d, [d EXCEPT ![filename] = "full"])

\* upload_to_s3 of scrape_local.py: the probe is os.path.exists, the write
\* opens the file before the body is streamed into it
upload_to_s3_local(url, d, net) ==
    LET filename == UrlFacts[url].name
    IN  IF UrlFacts[url].skip \/ ~is_allowed(url)
        THEN Call(url, "Skipped", FALSE, FALSE, FALSE, FALSE, d, d)
        ELSE IF d[filename] # "absent" THEN Call(url, "AlreadyExists", TRUE, FALSE, FALSE, FALSE, d, d)
        ELSE IF net.get = "refused" THEN Call(url, "Failed", TRUE, TRUE, FALSE, TRUE, d, d)
        ELSE IF net.get = "broken"
             THEN Call(url, "Failed", TRUE, TRUE, TRUE, TRUE, d, [d EXCEPT ![filename] = "partial"])
        ELSE Call(url, "Transferred", TRUE, TRUE, TRUE, FALSE, d, [d EXCEPT ![filename] = "full"])

\* download_file of scrape_all.py: upload_to_s3 of scrape_local.py without the
\* allowlist test
download_file(url, d, net) ==
    LET filename == UrlFacts[url].name
    IN  IF UrlFacts[url].skip
        THEN Call(url, "Skipped", FALSE, FALSE, FALSE, FALSE, d, d)
        ELSE IF d[filename] # "absent" THEN Call(url, "AlreadyExists", TRUE, FALSE, FALSE, FALSE, d, d)
        ELSE IF net.get = "refused" THEN Call(url, "Failed", TRUE, TRUE, FALSE, TRUE, d, d)
        ELSE IF net.get = "broken"
             THEN Call(url, "Failed", TRUE, TRUE, TRUE, TRUE, d, [d EXCEPT ![filename] = "partial"])
        ELSE Call(url, "Transferred", TRUE, TRUE, TRUE, FALSE, d, [d EXCEPT ![filename] = "full"])

\* the transfer of the script that runs
Transfer(url, d, net) ==
    CASE impl = "s3" -> upload_to_s3(url, d, net)
      [] impl = "local" -> upload_to_s3_local(url, d, net)
      [] OTHER -> download_file(url, d, net)

\* what is kept of a call to look at afterwards
Seen(c) == [f \in DOMAIN c \ {"dest"} |-> c[f]]

(* ---------------------------- LinkClassifier --------------------------- *)
\* the inner loop following a link that starts with the external prefix and is
\* allowed: the page behind it is fetched and the artifact it links to is
\* handed to upload_to_s3
RECURSIVE DetailLoop_chained(_, _, _, _, _)
DetailLoop_chained(base, links, nets, d, n) ==
    IF n > Len(links) THEN [dest |-> d, calls |-> <<>>, got_files |-> FALSE, raised |-> FALSE]
    ELSE LET u == SiteLinks[base][links[n]]
             follow == ~UrlFacts[u].artifact /\ UrlFacts[u].external /\ is_allowed(u)
         IN  IF UrlFacts[u].artifact \/ follow
             THEN LET c == Transfer(IF follow THEN Resolve(u, HrefDetailArtifact) ELSE u, d, nets[n])
                  IN  IF c.raised
                      THEN [dest |-> c.dest, calls |-> <<Seen(c)>>, got_files |-> FALSE, raised |-> TRUE]
                      ELSE LET rest == DetailLoop_chained(base, links, nets, c.dest, n + 1)
                           IN  [dest |-> rest.dest, calls |-> <<Seen(c)>> \o rest.calls,
                                got_files |-> TRUE, raised |-> rest.raised]
             ELSE DetailLoop_chained(base, links, nets, d, n + 1)

\* the inner loop of process() over the anchors links[n..] of the detail page
\* at base: every anchor that ends in an artifact extension is handed to
\* upload_to_s3; an exception leaves the loop
RECURSIVE DetailLoop(_, _, _, _, _)
DetailLoop(base, links, nets, d, n) ==
    IF n > Len(links) THEN [dest |-> d, calls |-> <<>>, got_files |-> FALSE, raised |-> FALSE]
    ELSE LET u == SiteLinks[base][links[n]]
         IN  IF UrlFacts[u].artifact
             THEN LET c == Transfer(u, d, nets[n])
                  IN  IF c.raised
                      THEN [dest |-> c.dest, calls |-> <<Seen(c)>>, got_files |-> FALSE, raised |-> TRUE]
                      ELSE LET rest == DetailLoop(base, links, nets, c.dest, n + 1)
                           IN  [dest |-> rest.dest, calls |-> <<Seen(c)>> \o rest.calls,
                                got_files |-> TRUE, raised |-> rest.raised]
             ELSE DetailLoop(base, links, nets, d, n + 1)

\* process() following every external link, allowlisted or not
Classify_anyExternal(full) ==
    IF UrlFacts[full].artifact THEN "DirectArtifact"
    ELSE IF UrlFacts[full].external THEN "ExternalDetail"
    ELSE "Irrelevant"

\* process() testing the external prefix before the extension
Classify_externalFirst(full) ==
    IF UrlFacts[full].external /\ is_allowed(full) THEN "ExternalDetail"
    ELSE IF UrlFacts[full].artifact THEN "DirectArtifact"
    ELSE "Irrelevant"

\* the class process() puts a resolved listing anchor in; scrape_all.py has no
\* allowlist and follows every link under the external prefix
Classify(full) ==
    IF UrlFacts[full].artifact THEN "DirectArtifact"
    ELSE IF UrlFacts[full].external /\ (impl = "all" \/ is_allowed(full)) THEN "ExternalDetail"
    ELSE "Irrelevant"

(* --------------------------- CrawlController --------------------------- *)
NoObjects == [n \in ArtifactNames |-> "absent"]

\* the names whose transfer was set out on (requests.get) in the calls cs and
\* ended Failed
FailedIn(cs) == {cs[m].name : m \in {n \in DOMAIN cs : cs[n].fetched /\ cs[n].result = "Failed"}}

Init ==
    /\ impl \in {"s3", "local"}
    /\ ALLOWED_IDS \in IdChoices
    /\ resumeFile = NoFile
    /\ missingFile = <<>>
    /\ dest = NoObjects
    /\ pc = "idle"
    /\ run = 0
    /\ outcome = "none"
    /\ stoppedAt = "idle"
    /\ leave = "none"
    /\ resume_page = 0
    /\ total = 0
    /\ last = -1
    /\ i = 0
    /\ display = 0
    /\ html = 0
    /\ k = 0
    /\ calls = <<>>
    /\ reads = <<>>
    /\ saves = <<>>
    /\ held = 0
    /\ replaced = 0
    /\ torn = FALSE
    /\ handled = {}
    /\ strategy = 0
    /\ tried = <<>>
    /\ advLog = <<>>
    /\ smooth = TRUE
    /\ detail = <<>>
    /\ grab = <<>>
    /\ failed = {}
    /\ query = <<>>
    /\ threads = <<>>
    /\ pause_event = FALSE
    /\ polls = 0
    /\ log_queue = <<>>
    /\ log_widget = <<>>
    /\ emitted = <<>>
    /\ gui = "wait"

\* the run ends with an exception that nothing catches
Raise ==
    /\ pc' = "idle"
    /\ outcome' = "Raised"
    /\ stoppedAt' = pc

\* scraper_main without the truncation of the missing-file log at its start
StartRun_keepsLog ==
    /\ pc = "idle"
    /\ run < MaxRuns
    /\ run' = run + 1
    /\ leave' = "none"
    /\ resume_page' = 0
    /\ total' = 0
    /\ last' = -1
    /\ i' = 0
    /\ html' = 0
    /\ k' = 0
    /\ calls' = <<>>
    /\ reads' = <<>>
    /\ saves' = <<>>
    /\ strategy' = 0
    /\ tried' = <<>>
    /\ advLog' = <<>>
    /\ smooth' = TRUE
    /\ detail' = <<>>
    /\ failed' = {}
    /\ \E session \in {"ok", "error"} :
          IF session = "ok"
          THEN pc' = "seek" /\ outcome' = "none" /\ stoppedAt' = "idle" /\ display' = 1
          ELSE Raise /\ display' = 0
    /\ grab' = <<>>
    /\ UNCHANGED <<config, pause, logging, threads, query, resumeFile, missingFile, dest, held, replaced, torn, handled>>

\* scraper_main up to the submitted search: the missing-file log is truncated,
\* the browser session is opened, the entry page loaded and the search form
\* submitted; none of the session steps is guarded
StartRun ==
    /\ pc = "idle"
    /\ run < MaxRuns
    /\ run' = run + 1
    /\ missingFile' = <<>>
    /\ leave' = "none"
    /\ resume_page' = 0
    /\ total' = 0
    /\ last' = -1
    /\ i' = 0
    /\ html' = 0
    /\ k' = 0
    /\ calls' = <<>>
    /\ reads' = <<>>
    /\ saves' = <<>>
    /\ strategy' = 0
    /\ tried' = <<>>
    /\ advLog' = <<>>
    /\ smooth' = TRUE
    /\ detail' = <<>>
    /\ failed' = {}
    /\ \E session \in {"ok", "error"} :
          IF session = "ok"
          THEN pc' = "seek" /\ outcome' = "none" /\ stoppedAt' = "idle" /\ display' = 1
          ELSE Raise /\ display' = 0
    /\ grab' = <<>>
    /\ UNCHANGED <<config, pause, logging, threads, query, resumeFile, dest, held, replaced, torn, handled>>

\* "Determine resume point": get_resume_page, then goPage(resume_page) when it is
\* above 1; a PlaywrightError of the jump is logged and the session stays on the
\* listing the search gave; the wait that follows is not guarded
ResumeSeek ==
    /\ pc = "seek"
    /\ resume_page' = get_resume_page(resumeFile)
    /\ IF resume_page' > 1
       THEN \E jump \in {"ok", "unavailable", "timeout"} :
               CASE jump = "ok" -> pc' = "total" /\ display' = resume_page' /\ UNCHANGED ending
                 [] jump = "unavailable" -> pc' = "total" /\ UNCHANGED <<display, ending>>
                 [] OTHER -> Raise /\ UNCHANGED display
       ELSE pc' = "total" /\ UNCHANGED <<display, ending>>
    /\ UNCHANGED <<config, pause, logging, last, grab, failed, threads, detail, query, files, run, leave, total, i, html, k, calls, reads, progress, cascade>>

\* DetermineTotal with the loop counter started at 1 instead of resume_page
DetermineTotal_fromOne ==
    /\ pc = "total"
    /\ \E ctl \in 0..MaxTotal : last' = ctl /\ total' = IF ctl = 0 THEN 1 ELSE ctl
    /\ i' = 1
    /\ IF resume_page > total'
       THEN pc' = "close" /\ leave' = "end"
       ELSE pc' = "read" /\ UNCHANGED leave
    /\ UNCHANGED <<config, pause, logging, grab, failed, threads, detail, query, files, run, ending, resume_page, display, html, k, calls, reads,
                   progress, cascade>>

\* DetermineTotal with a loop that tests its bound after the body: the page at
\* the cursor is read even when the cursor is past total
DetermineTotal_bodyFirst ==
    /\ pc = "total"
    /\ \E ctl \in 0..MaxTotal : last' = ctl /\ total' = IF ctl = 0 THEN 1 ELSE ctl
    /\ i' = resume_page
    /\ pc' = "read"
    /\ UNCHANGED <<config, pause, logging, grab, failed, threads, detail, query, files, run, ending, leave, resume_page, display, html, k, calls, reads,
                   progress, cascade>>

\* "Determine total pages" and the head of the scrape loop: total is the number
\* the last-page control encodes (ctl), or 1 when the control is absent (ctl = 0);
\* range(resume_page, total + 1) is empty when resume_page > total
DetermineTotal ==
    /\ pc = "total"
    /\ \E ctl \in 0..MaxTotal : last' = ctl /\ total' = IF ctl = 0 THEN 1 ELSE ctl
    /\ i' = resume_page
    /\ IF resume_page > total'
       THEN pc' = "close" /\ leave' = "end"
       ELSE pc' = "read" /\ UNCHANGED leave
    /\ UNCHANGED <<config, pause, logging, grab, failed, threads, detail, query, files, run, ending, resume_page, display, html, k, calls, reads,
                   progress, cascade>>

\* where process() stands after n anchors of the markup of page h
AfterAnchors(h, n) == IF n >= Len(SiteListing[h]) THEN "save" ELSE "process"

\* the content grab with a third attempt after a second pause
ReadContent_thrice ==
    /\ pc = "read"
    /\ \E got \in {"first", "second", "third", "none"} :
          /\ html' = IF got = "none" THEN 0 ELSE display
          /\ grab' = [tries |-> IF got = "first" THEN 1 ELSE IF got = "second" THEN 2 ELSE 3,
                      pauses |-> IF got = "first" THEN 0 ELSE IF got = "second" THEN 1 ELSE 2,
                      got |-> got # "none"]
    /\ reads' = Append(reads, <<i, display>>) /\ last' = -1 /\ polls' = 0
    /\ k' = 0
    /\ calls' = <<>>
    /\ detail' = <<>>
    /\ tried' = <<>>
    /\ advLog' = <<>>
    /\ pc' = AfterAnchors(html', 0)
    /\ UNCHANGED <<config, logging, pause_event, failed, threads, query, files, run, ending, leave, resume_page, total, i, display,
                   progress, strategy, smooth>>

\* the content grab: up to two failed; "first" and "second" name the attempt
\* that succeeds, "none" leaves html = ""
ReadContent ==
    /\ pc = "read"
    /\ \E got \in {"first", "second", "none"} :
          /\ html' = IF got = "none" THEN 0 ELSE display
          /\ grab' = [tries |-> IF got = "first" THEN 1 ELSE 2,
                      pauses |-> IF got = "first" THEN 0 ELSE 1,
                      got |-> got # "none"]
    /\ reads' = Append(reads, <<i, display>>) /\ last' = -1 /\ polls' = 0
    /\ k' = 0
    /\ calls' = <<>>
    /\ detail' = <<>>
    /\ tried' = <<>>
    /\ advLog' = <<>>
    /\ pc' = AfterAnchors(html', 0)
    /\ UNCHANGED <<config, logging, pause_event, failed, threads, query, files, run, ending, leave, resume_page, total, i, display,
                   progress, strategy, smooth>>

\* process() with the external page fetched outside the try: its failure ends
\* the run
ProcessAnchor_fetchRaises ==
    /\ pc = "process"
    /\ k < Len(SiteListing[html])
    /\ k' = k + 1
    /\ LET full == SiteListing[html][k + 1]
           class == Classify(full)
       IN  CASE class = "DirectArtifact" ->
                  \E net \in NetFor(full) :
                     LET c == Transfer(full, dest, net)
                     IN  /\ calls' = <<Seen(c)>>
                         /\ detail' = <<>>
                         /\ dest' = c.dest
                         /\ IF c.raised THEN Raise ELSE pc' = AfterAnchors(html, k + 1) /\ UNCHANGED ending
                         /\ UNCHANGED missingFile
             [] class = "ExternalDetail" ->
                  \E fetch \in {"ok", "error"} :
                     IF fetch = "error"
                     THEN /\ calls' = <<>>
                          /\ detail' = [url |-> full, links |-> <<>>, fetched |-> FALSE,
                                         logged |-> Len(missingFile)]
                          /\ Raise
                          /\ UNCHANGED <<dest, missingFile>>
                     ELSE \E page \in DetailPages :
                          \E answers \in [{n \in DOMAIN page : Reaches(SiteLinks[full][page[n]])} -> Answers] :
                             LET nets == [n \in DOMAIN page |->
                                             IF n \in DOMAIN answers THEN answers[n] ELSE Quiet]
                                 r == DetailLoop(full, page, nets, dest, 1)
                             IN  /\ calls' = r.calls
                                 /\ detail' = [url |-> full, links |-> page, fetched |-> TRUE,
                                                logged |-> Len(missingFile)]
                                 /\ dest' = r.dest
                                 /\ missingFile' = IF ~r.raised /\ ~r.got_files
                                                   THEN Append(missingFile, UrlFacts[full].missing)
                                                   ELSE missingFile
                                 /\ pc' = AfterAnchors(html, k + 1)
                                 /\ UNCHANGED ending
             [] OTHER ->
                  /\ calls' = <<>>
                  /\ detail' = <<>>
                  /\ pc' = AfterAnchors(html, k + 1)
                  /\ UNCHANGED <<dest, missingFile, ending>>
    /\ failed' = failed \cup FailedIn(calls')
    /\ grab' = <<>>
    /\ UNCHANGED <<config, pause, logging, last, threads, query, resumeFile, run, leave, resume_page, total, i, display, html, reads,
                   progress, cascade>>

\* process() on the next anchor of the markup: a direct artifact is handed to
\* upload_to_s3 outside any try, so an exception of the transfer ends the run;
\* an allowed external link is fetched and its anchors handled inside one try
ProcessAnchor ==
    /\ pc = "process"
    /\ k < Len(SiteListing[html])
    /\ k' = k + 1
    /\ LET full == SiteListing[html][k + 1]
           class == Classify(full)
       IN  CASE class = "DirectArtifact" ->
                  \E net \in NetFor(full) :
                     LET c == Transfer(full, dest, net)
                     IN  /\ calls' = <<Seen(c)>>
                         /\ detail' = <<>>
                         /\ dest' = c.dest
                         /\ IF c.raised THEN Raise ELSE pc' = AfterAnchors(html, k + 1) /\ UNCHANGED ending
                         /\ UNCHANGED missingFile
             [] class = "ExternalDetail" ->
                  \E fetch \in {"ok", "error"} :
                     IF fetch = "error"
                     THEN /\ calls' = <<>>
                          /\ detail' = [url |-> full, links |-> <<>>, fetched |-> FALSE,
                                         logged |-> Len(missingFile)]
                          /\ pc' = AfterAnchors(html, k + 1)
                          /\ UNCHANGED <<dest, missingFile, ending>>
                     ELSE \E page \in DetailPages :
                          \E answers \in [{n \in DOMAIN page : Reaches(SiteLinks[full][page[n]])} -> Answers] :
                             LET nets == [n \in DOMAIN page |->
                                             IF n \in DOMAIN answers THEN answers[n] ELSE Quiet]
                                 r == DetailLoop(full, page, nets, dest, 1)
                             IN  /\ calls' = r.calls
                                 /\ detail' = [url |-> full, links |-> page, fetched |-> TRUE,
                                                logged |-> Len(missingFile)]
                                 /\ dest' = r.dest
                                 /\ missingFile' = IF ~r.raised /\ ~r.got_files
                                                   THEN Append(missingFile, UrlFacts[full].missing)
                                                   ELSE missingFile
                                 /\ pc' = AfterAnchors(html, k + 1)
                                 /\ UNCHANGED ending
             [] OTHER ->
                  /\ calls' = <<>>
                  /\ detail' = <<>>
                  /\ pc' = AfterAnchors(html, k + 1)
                  /\ UNCHANGED <<dest, missingFile, ending>>
    /\ failed' = failed \cup FailedIn(calls')
    /\ grab' = <<>>
    /\ UNCHANGED <<config, pause, logging, last, threads, query, resumeFile, run, leave, resume_page, total, i, display, html, reads,
                   progress, cascade>>

\* "Save progress", first half: open(RESUME_FILE, 'w') truncates the file
SaveOpen ==
    /\ pc = "save"
    /\ handled' = handled \cup {display}
    /\ resumeFile' = [exists |-> TRUE, text |-> <<>>]
    /\ calls' = <<>>
    /\ detail' = <<>>
    /\ pc' = "write"
    /\ grab' = <<>>
    /\ UNCHANGED <<config, pause, logging, last, failed, threads, query, missingFile, dest, run, ending, leave, resume_page, total, i, display,
                   html, k, reads, saves, held, replaced, torn, cascade>>

\* SaveWrite with the last-page test off by one: it advances from page total
SaveWrite_pastLast ==
    /\ pc = "write"
    /\ \E now \in NowAt(i) :
          resumeFile' = [exists |-> TRUE,
                         text |-> IF impl = "s3" THEN ProgressRecord(i, now) ELSE ProgressRecordLocal(i, now)]
    /\ saves' = Append(saves, i)
    /\ held' = i
    /\ replaced' = held
    /\ IF i <= total
       THEN pc' = "advance" /\ strategy' = 1 /\ tried' = <<>> /\ advLog' = <<>>
            /\ UNCHANGED <<leave, smooth>>
       ELSE pc' = "close" /\ leave' = "end" /\ UNCHANGED cascade
    /\ UNCHANGED <<config, pause, logging, last, grab, failed, threads, detail, query, missingFile, dest, run, ending, resume_page, total, i, display, html, k,
                   calls, reads, torn, handled>>

\* "Save progress", second half: the record is written and the file closed;
\* then the loop either ends (i = total) or starts the advance to i + 1
SaveWrite ==
    /\ pc = "write"
    /\ \E now \in NowAt(i) :
          resumeFile' = [exists |-> TRUE,
                         text |-> IF impl = "s3" THEN ProgressRecord(i, now) ELSE ProgressRecordLocal(i, now)]
    /\ saves' = Append(saves, i)
    /\ held' = i
    /\ replaced' = held
    /\ IF i < total
       THEN pc' = "advance" /\ strategy' = 1 /\ tried' = <<>> /\ advLog' = <<>>
            /\ UNCHANGED <<leave, smooth>>
       ELSE pc' = "close" /\ leave' = "end" /\ UNCHANGED cascade
    /\ UNCHANGED <<config, pause, logging, last, grab, failed, threads, detail, query, missingFile, dest, run, ending, resume_page, total, i, display, html, k,
                   calls, reads, torn, handled>>

\* `continue` in a loop that does not count: the same i is taken up again
Continue_samePage(shown) ==
    /\ i' = i
    /\ display' = shown
    /\ pc' = "read"
    /\ strategy' = 0
    /\ UNCHANGED <<leave, ending, smooth>>

\* `continue`: the loop goes on with i + 1 while the session shows page shown
Continue(shown) ==
    /\ i' = i + 1
    /\ display' = shown
    /\ pc' = "read"
    /\ strategy' = 0
    /\ UNCHANGED <<leave, ending, smooth>>

\* the strategy failed, leaving the session on page shown, and the next one
\* is attempted
FallThrough(next, shown) ==
    /\ strategy' = next
    /\ display' = shown
    /\ smooth' = FALSE
    /\ UNCHANGED <<pc, i, leave, ending>>

\* `break`
Break ==
    /\ pc' = "close"
    /\ leave' = "break"
    /\ strategy' = 0
    /\ smooth' = FALSE
    /\ UNCHANGED <<i, display, ending>>

\* what page.query_selector("a:has(img[src*='next.gif'])") and the use of its
\* result can come to: the listing has the anchor on every page but its last,
\* and the lookup can miss it or raise on any page
NextAnchor(found) == IF display >= 1 /\ display < total THEN found \cup {"no_anchor"} ELSE {"no_anchor", "error"}

\* the page number the messages of the cascade name: scrape.py names the page
\* it is on, scrape_local.py the page it wants to reach
LoggedPage == IF impl = "s3" THEN i ELSE i + 1

\* first attempt: goPage(next_page) through page.evaluate
Primary ==
    /\ pc = "advance"
    /\ strategy = 1
    /\ \E jump \in {"ok", "error", "late"} :
          /\ tried' = Append(tried, <<"Primary", jump>>)
          /\ IF jump = "ok"
             THEN Continue(i + 1) /\ UNCHANGED advLog
             ELSE /\ FallThrough(2, IF jump = "late" THEN i + 1 ELSE display)
                  /\ advLog' = Append(advLog, <<"warning", "Primary", LoggedPage>>)
    /\ UNCHANGED <<config, pause, logging, last, grab, failed, threads, detail, query, files, run, resume_page, total, html, k, calls, reads, progress>>

\* scrape.py's only fallback: click the anchor around next.gif. A missing anchor
\* and a timeout of the click stop the loop; any other PlaywrightError of the
\* click is not caught
NextButton ==
    /\ pc = "advance"
    /\ strategy = 2
    /\ impl = "s3"
    /\ \E click \in NextAnchor({"ok", "timeout", "error"}) :
          /\ tried' = Append(tried, <<"NextButton", click>>)
          /\ CASE click = "ok" -> Continue(display + 1) /\ UNCHANGED advLog
               [] click = "no_anchor" ->
                    Break /\ advLog' = Append(advLog, <<"error", "NextButton", LoggedPage>>)
               [] click = "timeout" ->
                    Break /\ advLog' = Append(advLog, <<"error", "NextButton", LoggedPage>>)
               [] OTHER -> Raise /\ smooth' = FALSE /\ UNCHANGED <<i, display, leave, strategy, advLog>>
    /\ UNCHANGED <<config, pause, logging, last, grab, failed, threads, detail, query, files, run, resume_page, total, html, k, calls, reads, progress>>

\* Fallback A handing over to Fallback C when it fails, leaving out the click
FallbackA_skipsB ==
    /\ pc = "advance"
    /\ strategy = 2
    /\ impl = "local"
    /\ \E nav \in NextAnchor({"ok", "error", "late"}) :
          /\ tried' = Append(tried, <<"A", nav>>)
          /\ CASE nav = "ok" -> Continue(display + 1) /\ UNCHANGED advLog
               [] nav = "no_anchor" -> FallThrough(4, display) /\ UNCHANGED advLog
               [] OTHER -> /\ FallThrough(4, IF nav = "late" THEN display + 1 ELSE display)
                           /\ advLog' = Append(advLog, <<"warning", "A", LoggedPage>>)
    /\ UNCHANGED <<config, pause, logging, last, grab, failed, threads, detail, query, files, run, resume_page, total, html, k, calls, reads, progress>>

\* scrape_local.py, second attempt: navigate to the href of the anchor around
\* next.gif; without such an anchor nothing is logged and nothing raised
FallbackA ==
    /\ pc = "advance"
    /\ strategy = 2
    /\ impl = "local"
    /\ \E nav \in NextAnchor({"ok", "error", "late"}) :
          /\ tried' = Append(tried, <<"A", nav>>)
          /\ CASE nav = "ok" -> Continue(display + 1) /\ UNCHANGED advLog
               [] nav = "no_anchor" -> FallThrough(3, display) /\ UNCHANGED advLog
               [] OTHER -> /\ FallThrough(3, IF nav = "late" THEN display + 1 ELSE display)
                           /\ advLog' = Append(advLog, <<"warning", "A", LoggedPage>>)
    /\ UNCHANGED <<config, pause, logging, last, grab, failed, threads, detail, query, files, run, resume_page, total, html, k, calls, reads, progress>>

\* scrape_local.py, third attempt: click that anchor
FallbackB ==
    /\ pc = "advance"
    /\ strategy = 3
    /\ impl = "local"
    /\ \E click \in NextAnchor({"ok", "error", "late"}) :
          /\ tried' = Append(tried, <<"B", click>>)
          /\ CASE click = "ok" -> Continue(display + 1) /\ UNCHANGED advLog
               [] click = "no_anchor" -> FallThrough(4, display) /\ UNCHANGED advLog
               [] OTHER -> /\ FallThrough(4, IF click = "late" THEN display + 1 ELSE display)
                           /\ advLog' = Append(advLog, <<"warning", "B", LoggedPage>>)
    /\ UNCHANGED <<config, pause, logging, last, grab, failed, threads, detail, query, files, run, resume_page, total, html, k, calls, reads, progress>>

\* scrape_local.py, fourth attempt: reload, then goPage(next_page) again
FallbackC ==
    /\ pc = "advance"
    /\ strategy = 4
    /\ impl = "local"
    /\ \E jump \in {"ok", "error", "late"} :
          /\ tried' = Append(tried, <<"C", jump>>)
          /\ IF jump = "ok"
             THEN Continue(i + 1) /\ advLog' = Append(advLog, <<"info", "C", LoggedPage>>)
             ELSE FallThrough(5, IF jump = "late" THEN i + 1 ELSE display)
                  /\ advLog' = advLog \o <<<<"info", "C", LoggedPage>>, <<"error", "C", LoggedPage>>>>
    /\ UNCHANGED <<config, pause, logging, last, grab, failed, threads, detail, query, files, run, resume_page, total, html, k, calls, reads, progress>>

\* Fallback D without the `break` after its failure: the loop goes on with
\* the next counter value
FallbackD_nobreak ==
    /\ pc = "advance"
    /\ strategy = 5
    /\ impl = "local"
    /\ \E jump \in {"ok", "error"} :
          /\ tried' = Append(tried, <<"D", jump>>)
          /\ IF jump = "ok"
             THEN Continue(i + 1) /\ advLog' = Append(advLog, <<"info", "D", LoggedPage>>)
             ELSE /\ \E shown \in {0, 1} : Continue(shown)
                  /\ advLog' = advLog \o <<<<"info", "D", LoggedPage>>, <<"error", "D", LoggedPage>>,
                                           <<"error", "stopping", LoggedPage>>>>
    /\ UNCHANGED <<config, pause, logging, last, grab, failed, threads, detail, query, files, run, resume_page, total, html, k, calls, reads, progress>>

\* Fallback D reading the last-page control again in the session it reopened
FallbackD_retotal ==
    /\ pc = "advance"
    /\ strategy = 5
    /\ impl = "local"
    /\ \E jump \in {"ok", "error"} :
          /\ tried' = Append(tried, <<"D", jump>>)
          /\ IF jump = "ok"
             THEN /\ Continue(i + 1) /\ advLog' = Append(advLog, <<"info", "D", LoggedPage>>)
                  /\ \E ctl \in 0..MaxTotal : total' = IF ctl = 0 THEN 1 ELSE ctl
             ELSE /\ \E shown \in {0, 1} : display' = shown
                  /\ pc' = "close"
                  /\ leave' = "break"
                  /\ strategy' = 0
                  /\ smooth' = FALSE
                  /\ advLog' = advLog \o <<<<"info", "D", LoggedPage>>, <<"error", "D", LoggedPage>>,
                                           <<"error", "stopping", LoggedPage>>>>
                  /\ UNCHANGED <<i, ending, total>>
    /\ UNCHANGED <<config, pause, logging, last, grab, failed, threads, detail, query, files, run, resume_page, html, k, calls, reads, progress>>

\* scrape_local.py, last attempt: close the browser, open a new session, submit
\* the search again and goPage(next_page); when that fails too the loop is left.
\* What the session shows after a failed restart is not known (shown).
FallbackD ==
    /\ pc = "advance"
    /\ strategy = 5
    /\ impl = "local"
    /\ \E jump \in {"ok", "error"} :
          /\ tried' = Append(tried, <<"D", jump>>)
          /\ IF jump = "ok"
             THEN Continue(i + 1) /\ advLog' = Append(advLog, <<"info", "D", LoggedPage>>)
             ELSE /\ \E shown \in {0, 1} : display' = shown
                  /\ pc' = "close"
                  /\ leave' = "break"
                  /\ strategy' = 0
                  /\ smooth' = FALSE
                  /\ advLog' = advLog \o <<<<"info", "D", LoggedPage>>, <<"error", "D", LoggedPage>>,
                                           <<"error", "stopping", LoggedPage>>>>
                  /\ UNCHANGED <<i, ending>>
    /\ UNCHANGED <<config, pause, logging, last, grab, failed, threads, detail, query, files, run, resume_page, total, html, k, calls, reads, progress>>

\* after the loop, whether it ran to its end or was left by `break`:
\* browser.close() and the "Scraping Complete" message
Close ==
    /\ pc = "close"
    /\ pc' = "idle"
    /\ outcome' = IF leave = "end" THEN "Done" ELSE "Aborted"
    /\ advLog' = Append(advLog, <<"info", "complete", 0>>)
    /\ UNCHANGED <<stoppedAt, config, pause, logging, last, grab, failed, threads, detail, query, files, run, leave, resume_page, total, i, display, html, k, calls, reads,
                   progress, strategy, tried, smooth>>

\* the process dies while a run is active (killed, power lost, window closed:
\* the run's thread is a daemon thread)
Crash ==
    /\ pc # "idle"
    /\ pc' = "idle"
    /\ outcome' = "Killed"
    /\ stoppedAt' = pc
    /\ torn' = (torn \/ pc = "write")
    /\ UNCHANGED <<config, pause, logging, last, grab, failed, threads, detail, query, files, run, leave, resume_page, total, i, display, html, k, calls, reads,
                   saves, held, replaced, handled, cascade>>

Next ==
    \/ StartRun
    \/ ResumeSeek
    \/ DetermineTotal
    \/ ReadContent
    \/ ProcessAnchor
    \/ SaveOpen
    \/ SaveWrite
    \/ Primary
    \/ NextButton
    \/ FallbackA
    \/ FallbackB
    \/ FallbackC
    \/ FallbackD
    \/ Close
    \/ Crash

Spec == Init /\ [][Next]_vars

(* ------------------------ the sink on its own --------------------------- *)
\* the URLs process() hands to upload_to_s3
ArtifactUrls == {u \in SiteUrls : UrlFacts[u].artifact}

\* one more upload_to_s3 call, for any artifact URL and any answer of the
\* network, on the destination the calls before it left
TransferCall ==
    /\ Len(calls) < MaxCalls
    /\ \E url \in ArtifactUrls :
       \E net \in NetFor(url) :
          LET c == Transfer(url, dest, net)
          IN  /\ calls' = Append(calls, Seen(c))
              /\ dest' = c.dest
    /\ UNCHANGED <<config, pause, logging, last, grab, failed, threads, detail, query, resumeFile, missingFile, pc, run, ending, leave, resume_page, total, i,
                   display, html, k, reads, progress, cascade>>

SinkSpec == Init /\ [][TransferCall]_vars

(* ------------------------------ claims ---------------------------------- *)
\* the filters of step 2 and 3 of the transfer, stated on the URL text itself
NameHasSkipKeyword(url) == \E kw \in {KwMap, KwResearch} : Contains(Lower(Basename(url)), kw)

PassesFilters(url) == ~NameHasSkipKeyword(url) /\ is_allowed_by(ALLOWED_IDS, url)

\* two calls in a row for the same URL that passes the filters, the first
\* finding nothing stored under its name
TwiceInARow(n) ==
    /\ n + 1 \in DOMAIN calls
    /\ calls[n].url = calls[n + 1].url
    /\ PassesFilters(calls[n].url)
    /\ calls[n].before = "absent"

C2_NeverOverwrites ==
    /\ [](\A n \in DOMAIN calls :
             calls[n].wrote => calls[n].probed /\ calls[n].before = "absent")
    /\ [][\A name \in ArtifactNames : dest[name] # "absent" => dest'[name] = dest[name]]_vars

\* C3: a URL whose filename contains a skip keyword (any letter case) gives
\* Skipped, whether or not the allowlist matches it, and the call makes no
\* probe, no fetch and no write.
C3_SkipKeywordSkipped ==
    \A n \in DOMAIN calls :
        NameHasSkipKeyword(calls[n].url) =>
            /\ calls[n].result = "Skipped"
            /\ ~calls[n].probed /\ ~calls[n].fetched /\ ~calls[n].wrote

\* C3 witness: a map sheet that the allowlist matches is skipped
C3_Witness ==
    \E n \in DOMAIN calls :
        /\ NameHasSkipKeyword(calls[n].url)
        /\ is_allowed_by(ALLOWED_IDS, calls[n].url)
        /\ calls[n].result = "Skipped"

\* the pages lo..hi in order
FromTo(lo, hi) == [n \in 1..(hi - lo + 1) |-> lo + n - 1]

\* C4: with an empty allowlist no URL is allowed, no transfer probes, fetches
\* or writes, no transfer brings the run down, and a run that walks to the end
\* has saved the cursor once for every page from the resume cursor to the
\* total.
C4_EmptyAllowlist ==
    ALLOWED_IDS = {} =>
        /\ \A url \in SiteUrls : ~is_allowed(url)
        /\ \A n \in DOMAIN calls :
              /\ calls[n].result = "Skipped"
              /\ ~calls[n].probed /\ ~calls[n].fetched /\ ~calls[n].wrote
        /\ dest = NoObjects
        /\ ~(outcome = "Raised" /\ stoppedAt = "process")
        /\ (smooth => leave # "break")
        /\ (leave = "end" => saves = FromTo(resume_page, total))

\* C4 witness: a run with the empty allowlist has walked three pages to the end
C4_Witness ==
    /\ ALLOWED_IDS = {}
    /\ outcome = "Done"
    /\ resume_page = 1
    /\ saves = <<1, 2, 3>>

\* C5: a run that starts at cursor 1 and in which no navigation strategy has
\* failed reads the listing pages 1, 2, ... in order, the session showing the
\* page the counter names, saves the cursor after each of them (1, 2, ...),
\* failed no advance from the last page, never leaves the loop by `break`,
\* and leaves it at its end only with every page 1..total read and saved; it
\* then ends Done.
C5_WalksAllPages ==
    (resume_page = 1 /\ smooth) =>
        /\ \A n \in DOMAIN reads : reads[n][1] = n /\ reads[n][2] = n
        /\ \A n \in DOMAIN saves : saves[n] = n
        /\ Len(reads) <= total
        /\ (pc = "advance" => i < total)
        /\ (leave = "end" => Len(reads) = total /\ Len(saves) = total)
        /\ leave # "break" /\ outcome # "Aborted"
        /\ (outcome = "Done" => leave = "end")

\* C5 witness: a run from cursor 1 over three pages has ended Done
C5_Witness ==
    /\ resume_page = 1
    /\ smooth
    /\ total = 3
    /\ outcome = "Done"
    /\ Len(reads) = 3
    /\ saves = <<1, 2, 3>>
    /\ impl = "s3"


\* the page advance just over: its primary jump failed and Fallback A succeeded
PrimaryFailedThenA ==
    /\ pc = "read"
    /\ Len(tried) >= 2
    /\ tried[1][1] = "Primary" /\ tried[1][2] # "ok"
    /\ tried[2] = <<"A", "ok">>

\* C6 as stated: when the primary jump from page k fails and Fallback A
\* succeeds, the cascade ends there (no B, C or D), the loop goes on to process
\* page k + 1 (the counter is one past the page saved last and the session
\* shows that page), and the advance has logged one line: the warning of the
\* primary jump.
C6_FallbackASucceeds ==
    PrimaryFailedThenA =>
        /\ Len(tried) = 2
        /\ strategy = 0
        /\ leave = "none"
        /\ saves # <<>> /\ i = saves[Len(saves)] + 1
        /\ display = i
        /\ advLog = << <<"warning", "Primary", i>> >>

\* every strategy of scrape_local.py's cascade was attempted and failed
CascadeExhausted ==
    /\ impl = "local"
    /\ Len(tried) = 5
    /\ \A n \in DOMAIN tried : tried[n][2] # "ok"

\* C7: when all five strategies fail while advancing from page k - 1 to k, the
\* loop is left by `break` and the run ends Aborted: no page after k - 1 is
\* read, nothing after k - 1 is saved, and the progress file still gives
\* k - 1; a run of scrape_local.py ends Aborted only this way.
C7_CascadeExhaustedAborts ==
    /\ CascadeExhausted =>
          /\ leave = "break"
          /\ pc \in {"close", "idle"}
          /\ outcome \in {"none", "Aborted", "Killed"}
          /\ saves # <<>> /\ saves[Len(saves)] = i
          /\ Len(reads) = Len(saves) /\ reads[Len(reads)][1] = i
          /\ held = i
          /\ get_resume_page(resumeFile) = i
    /\ (impl = "local" /\ outcome = "Aborted") => CascadeExhausted

\* C7 witness: the advance from page 2 to page 3 failed in every strategy and
\* the run has ended Aborted
C7_Witness ==
    /\ CascadeExhausted
    /\ outcome = "Aborted"
    /\ i = 2
    /\ total = 3

\* C8 as stated, in what it says of the persisted cursor: the page the progress
\* store names has had its listing processed to the end (by this run or an
\* earlier one).
C8_CursorImpliesProcessed == held # 0 => held \in handled

\* C9 as stated: after a kill in the middle of save(new), load() gives the old
\* value (1 when nothing was stored) or the new one.
C9_SaveCrashAtomic ==
    (outcome = "Killed" /\ stoppedAt = "write") =>
        get_resume_page(resumeFile) \in {IF held = 0 THEN 1 ELSE held, i}

\* C10: unless a run was killed inside a save, every value written to the
\* progress file is at least the value it replaces, and the values one run
\* writes are the loaded cursor, then each time one more.
C10_CursorNeverDecreases ==
    /\ \A n \in DOMAIN saves : saves[n] = resume_page + n - 1
    /\ ~torn => held >= replaced

\* C10 witness: a second run resumed at page 2 and has written 2 and 3
C10_Witness ==
    /\ ~torn
    /\ run = 2
    /\ resume_page = 2
    /\ saves = <<2, 3>>
    /\ replaced = 2 /\ held = 3


(* ------------------------- runs side by side ---------------------------- *)
\* "Start Scraper": the button's command starts a daemon thread with
\* run_scraper at every click, whether or not an earlier one still runs
StartClick ==
    /\ Len(threads) < MaxRuns
    /\ threads' = Append(threads, [at |-> "idle", call |-> <<>>])
    /\ UNCHANGED <<config, pause, logging, last, grab, failed, detail, query, files, pc, run, ending, leave, resume_page, total, i, display, html, k,
                   calls, reads, progress, cascade>>

\* thread t enters upload_to_s3: the filters, the probe and the fetch. A call
\* that will not store anything returns here; one that found the name absent
\* and has the content stands before upload_fileobj (before open(path, 'wb'))
BeginTransfer(t) ==
    /\ threads[t].at = "idle"
    /\ Len(calls) + Cardinality({u \in DOMAIN threads : threads[u].at = "store"}) < MaxCalls
    /\ \E url \in ArtifactUrls :
       \E net \in NetFor(url) :
          LET c == Transfer(url, dest, net)
          IN  IF c.wrote
              THEN /\ threads' = [threads EXCEPT ![t] = [at |-> "store", call |-> c]]
                   /\ UNCHANGED calls
              ELSE /\ calls' = Append(calls, Seen(c))
                   /\ UNCHANGED threads
    /\ UNCHANGED <<config, pause, logging, last, grab, failed, detail, query, files, pc, run, ending, leave, resume_page, total, i, display, html, k,
                   reads, progress, cascade>>

\* thread t stores what it fetched and returns from upload_to_s3
FinishTransfer(t) ==
    /\ threads[t].at = "store"
    /\ LET c == threads[t].call
       IN  /\ dest' = [dest EXCEPT ![c.name] = c.dest[c.name]]
           /\ calls' = Append(calls, Seen(c))
    /\ threads' = [threads EXCEPT ![t] = [at |-> "idle", call |-> <<>>]]
    /\ UNCHANGED <<config, pause, logging, last, grab, failed, detail, query, resumeFile, missingFile, pc, run, ending, leave, resume_page, total, i,
                   display, html, k, reads, progress, cascade>>

\* run_scraper of thread t returns: asyncio.run(scraper_main()) has ended, by
\* the end of the listing, a break or an exception, and the thread is over
ReturnRun(t) ==
    /\ threads[t].at = "idle"
    /\ threads' = [threads EXCEPT ![t] = [at |-> "over", call |-> <<>>]]
    /\ UNCHANGED <<config, pause, logging, last, grab, failed, detail, query, files, pc, run, ending, leave, resume_page, total, i, display, html, k,
                   calls, reads, progress, cascade>>

OverlapNext ==
    \/ StartClick
    \/ \E t \in DOMAIN threads : BeginTransfer(t)
    \/ \E t \in DOMAIN threads : FinishTransfer(t)
    \/ \E t \in DOMAIN threads : ReturnRun(t)

OverlapSpec == Init /\ [][OverlapNext]_vars

\* C2 as stated, in its last part: between the probe that reported a name
\* absent and the write of the same call, nothing else is written under the
\* name, so the write never replaces a stored object.
C2_NoWriteBetweenProbeAndWrite ==
    \A t \in DOMAIN threads :
        threads[t].at = "store" => dest[threads[t].call.name] = "absent"

\* the run_scraper threads that have not returned
ActiveRuns == {t \in DOMAIN threads : threads[t].at # "over"}

\* C33 as stated: at most one crawl run is active at any time, the entry point
\* never starts a second run while one is in progress.
C33_AtMostOneRunActive == Cardinality(ActiveRuns) <= 1


(* --------------------------- the progress file -------------------------- *)
\* the pages a progress record is written for
MaxPage == 12

\* texts of a progress file whose leading field int() refuses
Letters == <<"a","b","c">>

UnparseableRecords ==
    { <<>>,
      Letters,
      Letters \o TimeSep \o <<"1">>,
      <<"1","2">> \o Letters \o TimeSep \o <<"1">>,
      <<"1",".","5">> \o DateSep \o <<"2">>,
      <<","," ","3">>,
      <<" ",","," ","7">> }

\* "Save progress" for any page, at any reading of the clock
StoreSave ==
    /\ \E p \in 1..MaxPage, now \in Clock :
          /\ resumeFile' = [exists |-> TRUE,
                            text |-> IF impl = "s3" THEN ProgressRecord(p, now)
                                     ELSE ProgressRecordLocal(p, now)]
          /\ held' = p
    /\ UNCHANGED <<config, pause, logging, last, grab, failed, threads, detail, query, missingFile, dest, pc, run, ending, leave, resume_page, total, i,
                   display, html, k, calls, reads, saves, replaced, torn, handled, cascade>>

\* the file is removed, emptied or filled with something else between runs
StoreDamage ==
    /\ \/ resumeFile' = NoFile
       \/ \E text \in UnparseableRecords : resumeFile' = [exists |-> TRUE, text |-> text]
    /\ held' = 0
    /\ UNCHANGED <<config, pause, logging, last, grab, failed, threads, detail, query, missingFile, dest, pc, run, ending, leave, resume_page, total, i,
                   display, html, k, calls, reads, saves, replaced, torn, handled, cascade>>

\* resume_page = get_resume_page()
StoreLoad ==
    /\ resume_page' = get_resume_page(resumeFile)
    /\ UNCHANGED <<config, pause, logging, last, grab, failed, threads, detail, query, files, pc, run, ending, leave, total, i, display, html, k, calls,
                   reads, progress, cascade>>

StoreNext == StoreSave \/ StoreDamage \/ StoreLoad

StoreSpec == Init /\ [][StoreNext]_vars

\* C11: get_resume_page on the record written for page p gives p, whatever
\* the clock read when it was written, and gives 1 when the file is missing
\* or its leading field is not an integer.
C11_LoadAfterSave ==
    get_resume_page(resumeFile) = IF held = 0 THEN 1 ELSE held

\* C11 witness: the record of page 12, written in the afternoon, was loaded
\* as 12
C11_Witness ==
    /\ held = 12
    /\ resume_page = 12
    /\ resumeFile.exists
    /\ \E n \in DOMAIN resumeFile.text : resumeFile.text[n] = "P"


\* the links of the external page just visited that end in an artifact
\* extension, resolved against the page, in the order of the page
DetailArtifacts ==
    LET resolved == [n \in DOMAIN detail.links |-> SiteLinks[detail.url][detail.links[n]]]
        IsArtifact(u) == UrlFacts[u].artifact
    IN  SelectSeq(resolved, IsArtifact)

\* C12 as stated: after an external page was fetched, upload_to_s3 has been
\* called for each of its artifact links and nothing was added to the
\* missing-file log, or, when it has no artifact link, no call was made and one
\* line was added: the last path segment of the page's URL without trailing
\* slashes.
C12_DetailPageHandled ==
    (detail # <<>> /\ detail.fetched) =>
        IF DetailArtifacts # <<>>
        THEN /\ [n \in DOMAIN calls |-> calls[n].url] = DetailArtifacts
             /\ Len(missingFile) = detail.logged
        ELSE /\ calls = <<>>
             /\ Len(missingFile) = detail.logged + 1
             /\ missingFile[Len(missingFile)] = Basename(RStripSlash(detail.url))

(* ---------------------- the allowlist on its own ----------------------- *)
\* raw identifiers of three "/"-delimited segments a workbook can hold, each with
\* the texts the workbook row is expected to let through, written out by hand:
\* the identifier, every "/" removed, every "/" replaced by "_", first and last
\* segment joined with "_" and joined directly
ThreeSegmentIds ==
    {
    [raw   |-> <<"1","A","/","2","/","3">>,
     forms |-> {<<"1","A","/","2","/","3">>,
                <<"1","A","2","3">>,
                <<"1","A","_","2","_","3">>,
                <<"1","A","_","3">>,
                <<"1","A","3">>}],
    [raw   |-> <<"1","2","b","/","0","0","7","/","x","9">>,
     forms |-> {<<"1","2","b","/","0","0","7","/","x","9">>,
                <<"1","2","b","0","0","7","x","9">>,
                <<"1","2","b","_","0","0","7","_","x","9">>,
                <<"1","2","b","_","x","9">>,
                <<"1","2","b","x","9">>}],
    [raw   |-> <<"N","/","/","4">>,
     forms |-> {<<"N","/","/","4">>,
                <<"N","4">>,
                <<"N","_","_","4">>,
                <<"N","_","4">>,
                <<"N","4">>}]
    }

\* texts put to is_allowed: the expected forms, and texts that only resemble them
Questions ==
    UNION {r.forms : r \in ThreeSegmentIds}
    \cup {<<"1","A">>,
          <<"x","9">>,
          <<"1","2","b","_","x","9","0">>,
          HrefReport}

\* ALLOWED_IDS = load_allowed_ids(): the module is imported with a workbook
\* holding some of the identifiers
LoadWorkbook ==
    /\ \E rows \in (SUBSET ThreeSegmentIds) \ {{}} :
          /\ ALLOWED_IDS' = load_allowed_ids({r.raw : r \in rows})
          /\ query' = [workbook |-> {r.raw : r \in rows}, text |-> <<>>, answer |-> FALSE]
    /\ UNCHANGED <<impl, pause, logging, last, grab, failed, threads, detail, files, pc, run, ending, leave, resume_page, total, i, display, html,
                   k, calls, reads, progress, cascade>>

\* is_allowed_by(ALLOWED_IDS, text)
Ask ==
    /\ query # <<>>
    /\ \E text \in Questions :
          query' = [query EXCEPT !.text = text, !.answer = is_allowed_by(ALLOWED_IDS, text)]
    /\ UNCHANGED <<config, pause, logging, last, grab, failed, threads, detail, files, pc, run, ending, leave, resume_page, total, i, display, html,
                   k, calls, reads, progress, cascade>>

AllowNext == LoadWorkbook \/ Ask

AllowSpec == Init /\ [][AllowNext]_vars

\* C13: for every raw identifier of three "/"-delimited segments in the
\* workbook, is_allowed answers true for the identifier itself, for it with
\* every "/" removed, for it with every "/" replaced by "_", and for its first
\* and last segment joined with "_" and joined directly.
C13_DerivedFormsAllowed ==
    query # <<>> =>
        /\ (\E r \in ThreeSegmentIds : r.raw \in query.workbook /\ query.text \in r.forms)
              => query.answer
        /\ \A r \in ThreeSegmentIds :
              r.raw \in query.workbook => \A form \in r.forms : is_allowed_by(ALLOWED_IDS, form)

\* C13 witness: with only 12b/007/x9 in the workbook, is_allowed was asked
\* about 12b_x9 and said yes, while 12b_x90 is not let through
C13_Witness ==
    /\ query # <<>>
    /\ query.workbook = {<<"1","2","b","/","0","0","7","/","x","9">>}
    /\ query.text = <<"1","2","b","_","x","9">>
    /\ query.answer
    /\ ~is_allowed_by(ALLOWED_IDS, <<"1","2","b","_","x","9","0">>)

\* C14: a call whose existence probe fails with anything but a definitive
\* not-found ends Failed: the source is not fetched, nothing is written to the
\* destination, and the error does not reach the caller.
C14_ProbeFailureContained ==
    \A n \in DOMAIN calls :
        (calls[n].probed /\ ~calls[n].fetched /\ calls[n].result # "AlreadyExists") =>
            /\ calls[n].result = "Failed"
            /\ ~calls[n].wrote
            /\ ~calls[n].raised

\* the filters of the transfer on every artifact URL, worked out once from the
\* text of the URL and of its file name: whether the name holds a skip keyword,
\* and under which identifier sets is_allowed passes the URL and the name alone
FilterTable ==
    [u \in ArtifactUrls |->
        [keyword     |-> NameHasSkipKeyword(u),
         allowed     |-> {ids \in IdChoices : is_allowed_by(ids, u)},
         nameAllowed |-> {ids \in IdChoices : is_allowed_by(ids, Basename(u))}]]

\* a call for a URL without skip keyword that is_allowed rejects is Skipped and
\* touches nothing
RejectedUntouched ==
    \A n \in DOMAIN calls :
        (~FilterTable[calls[n].url].keyword /\ ALLOWED_IDS \notin FilterTable[calls[n].url].allowed) =>
            /\ calls[n].result = "Skipped"
            /\ ~calls[n].probed /\ ~calls[n].fetched /\ ~calls[n].wrote

\* C15 as stated: a URL without skip keyword that is_allowed rejects is
\* Skipped without probe, fetch or write, and every object written has a name
\* that passes is_allowed and holds no skip keyword.
C15_WrittenNamesAllowed ==
    /\ RejectedUntouched
    /\ \A u \in ArtifactUrls :
          dest[UrlFacts[u].name] # "absent" =>
              /\ ALLOWED_IDS \in FilterTable[u].nameAllowed
              /\ ~FilterTable[u].keyword

\* C15 amended: a URL without skip keyword that is_allowed rejects is Skipped
\* without probe, fetch or write, and every object written was written by a
\* call for a URL that passes is_allowed, by its file name or by the URL as a
\* whole, and whose file name holds no skip keyword.
C15_WrittenUrlsAllowed ==
    /\ RejectedUntouched
    /\ \A name \in ArtifactNames :
          dest[name] # "absent" =>
              \E n \in DOMAIN calls :
                 /\ calls[n].wrote
                 /\ calls[n].name = name
                 /\ ALLOWED_IDS \in FilterTable[calls[n].url].allowed
                 /\ ~FilterTable[calls[n].url].keyword

\* C15 witness: with identifiers loaded, 999.zip was skipped untouched and
\* scan.pdf, allowed by its directory, was written
C15_Witness ==
    /\ ALLOWED_IDS # {}
    /\ \E n \in DOMAIN calls :
          /\ calls[n].url = HrefOther
          /\ calls[n].result = "Skipped"
          /\ ~calls[n].probed
    /\ \E n \in DOMAIN calls :
          /\ calls[n].url = HrefFiled
          /\ calls[n].wrote
          /\ dest[calls[n].name] = "full"

\* C16 as stated: a transfer that raises does not end the run, and does not
\* keep the remaining artifact links of the same external page from being
\* handed to upload_to_s3.
C16_TransferErrorContained ==
    \A n \in DOMAIN calls :
        calls[n].raised =>
            /\ ~(outcome = "Raised" /\ stoppedAt = "process")
            /\ ((detail # <<>> /\ detail.fetched) => Len(calls) = Len(DetailArtifacts))

\* C17 as stated: within one run a transfer is set out on (source fetch) only
\* for a key nothing is stored under and whose transfer has not failed earlier
\* in the run.
C17_FailedNotRetried ==
    [][ProcessAnchor =>
          \A n \in DOMAIN calls' :
             calls'[n].fetched =>
                /\ calls'[n].before = "absent"
                /\ calls'[n].name \notin failed]_vars

CascadeOrder == <<"Primary", "A", "B", "C", "D">>

\* C19: while scrape_local.py advances from page i to i + 1 the strategies
\* attempted are Primary, A, B, C, D in this order, each at most once; one is
\* attempted only after all before it have failed, none after one has
\* succeeded, and the run ends Aborted only after all five have failed.
C19_CascadeInOrder ==
    impl = "local" =>
        /\ Len(tried) <= 5
        /\ \A n \in DOMAIN tried :
              /\ tried[n][1] = CascadeOrder[n]
              /\ (n < Len(tried) => tried[n][2] # "ok")
        /\ (pc = "advance" =>
              /\ strategy = Len(tried) + 1
              /\ \A n \in DOMAIN tried : tried[n][2] # "ok")
        /\ ((leave = "break" \/ outcome = "Aborted") =>
              /\ Len(tried) = 5
              /\ \A n \in DOMAIN tried : tried[n][2] # "ok")

\* C19 witness: Primary, A and B failed, C succeeded, and page 3 is about to
\* be read
C19_Witness ==
    /\ impl = "local"
    /\ pc = "read"
    /\ i = 3
    /\ Len(tried) = 4
    /\ tried[1][2] = "error" /\ tried[2][2] = "no_anchor" /\ tried[3][2] = "error"
    /\ tried[4] = <<"C", "ok">>

\* the messages of the advance under way that tell of the failure of strategy s
FailureMessages(s) == {m \in DOMAIN advLog : advLog[m][2] = s /\ advLog[m][1] \in {"warning", "error"}}

\* C20 as stated: every strategy of the cascade that failed, a missing next
\* anchor included, has left exactly one message of its failure in the log.
C20_EachFailureLoggedOnce ==
    \A n \in DOMAIN tried :
        tried[n][2] # "ok" => Cardinality(FailureMessages(tried[n][1])) = 1

\* C21 as stated: no error of a navigation step leaves the cascade: an advance
\* ends with the loop at page i + 1 or with `break`, never with the run brought
\* down by an exception raised while advancing.
C21_NavigationErrorsAbsorbed == ~(outcome = "Raised" /\ stoppedAt = "advance")

\* C22: the content of a page is read in at most two attempts with one pause
\* between them, none after an attempt that succeeds; when both fail the page
\* is processed as empty markup (no anchor, no transfer, no external page, so
\* nothing logged as missing), its progress is saved all the same, and the loop
\* goes on to the advance.
C22_BoundedContentRead ==
    /\ grab # <<>> =>
          /\ grab.tries \in {1, 2}
          /\ grab.pauses = grab.tries - 1
          /\ (grab.tries = 2 \/ grab.got)
          /\ (grab.got <=> html # 0)
          /\ (~grab.got => pc \in {"save", "idle"})
          /\ (pc = "idle" => outcome = "Killed")
    /\ (html = 0 /\ pc \in {"process", "save", "write"}) =>
          /\ pc # "process"
          /\ k = 0 /\ calls = <<>> /\ detail = <<>>
    /\ (pc \in {"advance", "close"} /\ reads # <<>>) =>
          /\ Len(saves) = Len(reads)
          /\ saves[Len(saves)] = reads[Len(reads)][1]

\* C22 witness: both attempts to read page 2 failed, the page was saved and the
\* advance to page 3 is under way
C22_Witness ==
    /\ html = 0
    /\ pc = "advance"
    /\ i = 2
    /\ reads = <<(<<1, 1>>), (<<2, 2>>)>>
    /\ saves = <<1, 2>>
    /\ held = 2

\* C23: when the fetch of an allowed external page fails (or its markup cannot
\* be parsed) the error stays inside process(): no transfer is made for the
\* page, nothing is logged as missing, and process() goes on with the next
\* anchor of the listing, or to the save of the listing page after the last.
C23_DetailFetchFailureContained ==
    (detail # <<>> /\ ~detail.fetched) =>
        /\ detail.url = SiteListing[html][k]
        /\ calls = <<>>
        /\ Len(missingFile) = detail.logged
        /\ outcome # "Raised"
        /\ \/ pc = AfterAnchors(html, k)
           \/ pc = "idle" /\ outcome = "Killed"

\* C23 witness: the external page linked first on listing page 1 could not be
\* fetched, and process() stands before the next anchor of the listing
C23_Witness ==
    /\ detail # <<>>
    /\ ~detail.fetched
    /\ detail.url = HrefDetail
    /\ html = 1
    /\ k = 1
    /\ pc = "process"

\* C24 as stated: after the search is submitted the session is on page 1 when
\* the loaded cursor is 1 (no jump), and on the cursor's page or still on page 1
\* when it is above 1 (one jump, which took or failed); a jump that fails
\* does not end the run, which goes on to the paging loop.
C24_ResumeJumpNeverFatal ==
    /\ pc = "total" => display \in {1, resume_page}
    /\ ~(outcome = "Raised" /\ stoppedAt = "seek")

\* C25 as stated: at every content read of a run, the page the session
\* displays is the page the controller's counter names, so that the content
\* classified and the cursor saved under i are those of listing page i.
C25_CounterIsDisplayedPage ==
    \A n \in DOMAIN reads : reads[n][1] = reads[n][2]

\* C26: total is set once in a run, from the look for the last-page control
\* made after the resume seek and before any page is read: it is the number the
\* control encodes, or 1 when the control is absent, and no later step of the
\* run changes it, the session restart of Fallback D included.
C26_TotalDeterminedOnce ==
    /\ [](last # -1 => /\ total = (IF last = 0 THEN 1 ELSE last)
                       /\ reads = <<>>)
    /\ [][total' # total => \/ pc = "total" /\ reads = <<>> /\ total = 0
                            \/ pc = "idle" /\ total' = 0]_vars

\* C26 witness: Fallback D reopened the session and reached page 2, which is
\* about to be read, with total still the 2 determined before page 1
C26_Witness ==
    /\ tried # <<>> /\ tried[Len(tried)] = <<"D", "ok">>
    /\ pc = "read" /\ i = 2 /\ total = 2 /\ Len(reads) = 1

\* C27: in a run whose loaded cursor is above the total it determined (the
\* last-page control absent with a cursor above 1 included), no page is read,
\* no transfer is made, nothing is saved and the stored cursor stays the one
\* loaded; the run goes straight to closing the session and ends as a
\* completed run does.
C27_CursorPastTotal ==
    (total >= 1 /\ resume_page > total) =>
        /\ reads = <<>> /\ calls = <<>> /\ detail = <<>> /\ html = 0
        /\ saves = <<>>
        /\ get_resume_page(resumeFile) = resume_page
        /\ pc \in {"close", "idle"}
        /\ (pc = "close" => leave = "end")
        /\ (pc = "idle" => outcome \in {"Done", "Killed"})

\* C27 witness: a run that loaded cursor 2, found no last-page control (total
\* 1), saved nothing and ended Done with the stored cursor still 2
C27_Witness ==
    /\ resume_page = 2 /\ last = 0 /\ total = 1
    /\ pc = "idle" /\ outcome = "Done" /\ saves = <<>> /\ held = 2

\* the run has logged its closing message
Completed == \E m \in DOMAIN advLog : advLog[m][2] = "complete"

\* C28 as stated: the completion message is logged only by a run that ended
\* Done, the last save of which was for page total; a run whose loop was left
\* because the advance failed logs no completion message.
C28_CompletionOnlyWhenDone ==
    Completed =>
        /\ outcome = "Done"
        /\ leave # "break"
        /\ saves # <<>> /\ saves[Len(saves)] = total

\* C29: every anchor of a listing page is put in one class, the extension
\* first: a URL that ends in an artifact extension goes to one transfer call and
\* is not fetched as a page, also when it starts with the external prefix; else
\* a URL that starts with the external prefix and is allowed is fetched as a
\* detail page; any other anchor leaves no call, no fetch, no stored object, no
\* logged name and no change of the run's outcome.
C29_ClassifiedByPrecedence ==
    [][k' = k + 1 =>
          LET full == SiteListing[html][k']
          IN  CASE UrlFacts[full].artifact ->
                      /\ detail' = <<>>
                      /\ Len(calls') = 1 /\ calls'[1].url = full
                      /\ missingFile' = missingFile
                [] ~UrlFacts[full].artifact /\ UrlFacts[full].external
                                            /\ full \in AllowedUrls[ALLOWED_IDS] ->
                      /\ detail' # <<>> /\ detail'.url = full
                      /\ \A n \in DOMAIN calls' : calls'[n].url # full
                [] OTHER ->
                      /\ calls' = <<>> /\ detail' = <<>>
                      /\ dest' = dest /\ missingFile' = missingFile /\ outcome' = outcome
    ]_vars

\* C29 witness: the link of page 3 that starts with the external prefix and
\* ends in .pdf was handed to the transfer, which fetched it, and no page was
\* fetched for it
C29_Witness ==
    /\ html = 3 /\ k = 4 /\ SiteListing[3][4] = HrefDocsScan
    /\ UrlFacts[HrefDocsScan].external /\ HrefDocsScan \in AllowedUrls[ALLOWED_IDS]
    /\ detail = <<>>
    /\ Len(calls) = 1 /\ calls[1].url = HrefDocsScan /\ calls[1].fetched /\ calls[1].result = "Transferred"

\* C30: no fetch goes deeper than a page a listing links to. Every transfer
\* call of an anchor step is either the one call for the listing anchor itself
\* or, when the anchor's page was fetched, a call for an artifact link of that
\* page, in the page's order; a link of that page that starts with the
\* external prefix and is allowed is not followed.
C30_DepthAtMostTwo ==
    /\ (detail = <<>> /\ calls # <<>>) =>
          /\ Len(calls) = 1
          /\ k >= 1 /\ calls[1].url = SiteListing[html][k]
    /\ (detail # <<>>) =>
          /\ k >= 1 /\ detail.url = SiteListing[html][k]
          /\ Len(calls) <= Len(DetailArtifacts)
          /\ \A n \in DOMAIN calls : calls[n].url = DetailArtifacts[n]

\* C30 witness: the page fetched for an allowed external link of page 1 links
\* back to an allowed page under the external prefix and to no artifact; no
\* call was made and the page's name was recorded as missing
C30_Witness ==
    /\ detail # <<>> /\ detail.fetched
    /\ detail.url = HrefDetail
    /\ detail.links = <<HrefDetail, HrefDetailText>>
    /\ UrlFacts[HrefDetail].external /\ HrefDetail \in AllowedUrls[ALLOWED_IDS]
    /\ calls = <<>>
    /\ Len(missingFile) = detail.logged + 1


MaxPolls == 2

\* scrape_all.py before its first run: no workbook is read, no identifier set
\* is used
PauseInit ==
    /\ impl = "all"
    /\ ALLOWED_IDS = load_allowed_ids({})
    /\ resumeFile = NoFile
    /\ missingFile = <<>>
    /\ dest = NoObjects
    /\ pc = "idle"
    /\ run = 0
    /\ outcome = "none"
    /\ stoppedAt = "idle"
    /\ leave = "none"
    /\ resume_page = 0
    /\ total = 0
    /\ last = -1
    /\ i = 0
    /\ display = 0
    /\ html = 0
    /\ k = 0
    /\ calls = <<>>
    /\ reads = <<>>
    /\ saves = <<>>
    /\ held = 0
    /\ replaced = 0
    /\ torn = FALSE
    /\ handled = {}
    /\ strategy = 0
    /\ tried = <<>>
    /\ advLog = <<>>
    /\ smooth = TRUE
    /\ detail = <<>>
    /\ grab = <<>>
    /\ failed = {}
    /\ query = <<>>
    /\ threads = <<>>
    /\ pause_event = FALSE
    /\ polls = 0
    /\ log_queue = <<>>
    /\ log_widget = <<>>
    /\ emitted = <<>>
    /\ gui = "wait"

\* everything but the flag
unpaused ==
    <<impl, ALLOWED_IDS, resumeFile, missingFile, dest, pc, run, outcome, stoppedAt, leave,
      resume_page, total, last, i, display, html, k, calls, reads, saves, held, replaced,
      torn, handled, strategy, tried, advLog, smooth, detail, grab, failed, query, threads,
      polls, log_queue, log_widget, emitted, gui>>

\* pause_event.set() and pause_event.clear(), by whoever holds the event: the
\* script itself has no control that calls them
SetPause ==
    /\ impl = "all"
    /\ ~pause_event
    /\ pause_event' = TRUE
    /\ UNCHANGED unpaused

ClearPause ==
    /\ impl = "all"
    /\ pause_event
    /\ pause_event' = FALSE
    /\ UNCHANGED unpaused

\* the head of the scrape loop while the flag is set: one "Paused" message and
\* one second of sleep, then the flag is looked at again
PausePoll ==
    /\ pc = "read"
    /\ impl = "all"
    /\ pause_event
    /\ polls < MaxPolls
    /\ polls' = polls + 1
    /\ UNCHANGED <<config, logging, pause_event, files, pc, run, ending, leave, resume_page, total, last, i, display, html, k,
                   calls, reads, progress, cascade, detail, grab, failed, query, threads>>

\* the content read made whatever the flag says
ReadWhenClear_unpolled ==
    /\ impl = "all"
    /\ ReadContent

\* the head of the scrape loop when the flag is found clear: the iteration goes
\* on to the content read
ReadWhenClear ==
    /\ impl = "all"
    /\ ~pause_event
    /\ ReadContent

\* scrape_all.py's advance: goPage(next_page) and nothing after it; a failure
\* is logged, then "Cannot navigate" is logged and the loop is left
PrimaryAll ==
    /\ pc = "advance"
    /\ strategy = 1
    /\ impl = "all"
    /\ \E jump \in {"ok", "error", "late"} :
          /\ tried' = Append(tried, <<"Primary", jump>>)
          /\ IF jump = "ok"
             THEN Continue(i + 1) /\ UNCHANGED advLog
             ELSE /\ display' = (IF jump = "late" THEN i + 1 ELSE display)
                  /\ pc' = "close"
                  /\ leave' = "break"
                  /\ strategy' = 0
                  /\ smooth' = FALSE
                  /\ advLog' = advLog \o <<<<"warning", "Primary", LoggedPage>>,
                                           <<"error", "stopping", LoggedPage>>>>
                  /\ UNCHANGED <<i, ending>>
    /\ UNCHANGED <<config, pause, logging, last, grab, failed, threads, detail, query, files, run, resume_page, total, html, k, calls, reads, progress>>

PauseNext ==
    \/ StartRun
    \/ ResumeSeek
    \/ DetermineTotal
    \/ PausePoll
    \/ ReadWhenClear
    \/ ProcessAnchor
    \/ SaveOpen
    \/ SaveWrite
    \/ PrimaryAll
    \/ Close
    \/ Crash
    \/ SetPause
    \/ ClearPause

PauseSpec == PauseInit /\ [][PauseNext]_vars

\* C32: the flag is looked at at the head of every iteration, before the
\* content read. From a state where the loop stands there and the flag is
\* set, no step reads content, makes a transfer, records a missing name, saves
\* progress or moves the counter or the session; and the pages a run reads
\* carry the counter values from the resume page on, one by one, however
\* long and however often the run was paused.
C32_PausedAtLoopHead ==
    /\ [][(pause_event /\ pc = "read") =>
             UNCHANGED <<reads, html, k, calls, detail, dest, missingFile, saves, resumeFile, held, i, display>>
       ]_vars
    /\ [](\A n \in DOMAIN reads : reads[n][1] = resume_page + n - 1)

\* C32 witness: page 1 was saved and the advance to page 2 made; the run has
\* found the flag set twice at the head of the iteration for page 2 and the
\* flag is still set
C32_Witness ==
    /\ pause_event /\ polls = 2
    /\ pc = "read" /\ i = 2 /\ display = 2
    /\ saves = <<1>> /\ Len(reads) = 1


(* ------------------------- complete objects only ------------------------ *)
\* C34 as stated: every object at the destination holds the complete source
\* bytes, a failed transfer leaves no partial object under its key, and no
\* existence probe reports AlreadyExists for an object that is not complete.
C34_OnlyCompleteObjects ==
    /\ \A name \in ArtifactNames : dest[name] \in {"absent", "full"}
    /\ \A n \in DOMAIN calls : calls[n].result = "AlreadyExists" => calls[n].before = "full"


(* ----------------------- a record written by hand ----------------------- *)
\* texts of a progress file whose leading field int() accepts and that
\* save_resume_page never wrote: zero, negative and signed pages, with and
\* without the time field
EditedRecords ==
    { <<"0">>,
      <<"0">> \o TimeSep \o <<"1">>,
      <<"-","3">>,
      <<" ","-","1"," ">> \o TimeSep \o <<"1">>,
      <<"0","0">>,
      <<"+","2">>,
      <<"5">> }

\* the file is edited between runs and holds a number afterwards
StoreEdit ==
    /\ \E text \in EditedRecords : resumeFile' = [exists |-> TRUE, text |-> text]
    /\ held' = 0
    /\ UNCHANGED <<config, pause, logging, last, grab, failed, threads, detail, query, missingFile, dest, pc, run, ending, leave, resume_page, total, i,
                   display, html, k, calls, reads, saves, replaced, torn, handled, cascade>>

RecordNext == StoreSave \/ StoreDamage \/ StoreEdit \/ StoreLoad

RecordSpec == Init /\ [][RecordNext]_vars

\* C35 as stated: whatever the progress file holds (nothing, no number, zero,
\* a negative number, a page), get_resume_page returns an integer of at least
\* 1, and the value a load puts in resume_page is at least 1.
C35_LoadAtLeastOne ==
    /\ [](get_resume_page(resumeFile) >= 1)
    /\ [][resume_page' # resume_page => resume_page' >= 1]_vars


(* --------------------------- fetches tried again ------------------------ *)
\* C36 as stated: a fetch of an artifact's source that meets an error is tried
\* again up to a fixed number of attempts, and a transfer that ends Failed
\* after setting out on the fetch has used them all and has not raised, so
\* the run goes on with the next candidate.
C36_FetchRetriedThenFailed ==
    \A n \in DOMAIN calls :
        (calls[n].fetched /\ calls[n].result = "Failed") =>
            /\ calls[n].tries = MAX_RETRIES
            /\ ~calls[n].raised


(* ------------------------------ termination ----------------------------- *)
\* any of the three scripts before its run
LiveInit == Init \/ PauseInit

\* an earlier run of the script left its progress record: "Save progress" was
\* reached for a page of the listing, or for the page after its last
EarlierRun ==
    /\ pc = "idle"
    /\ run = 0
    /\ ~resumeFile.exists
    /\ \E p \in 1..(MaxTotal + 1) :
       \E now \in NowAt(p) :
          /\ resumeFile' = [exists |-> TRUE,
                            text |-> IF impl = "s3" THEN ProgressRecord(p, now)
                                     ELSE ProgressRecordLocal(p, now)]
          /\ held' = p
    /\ UNCHANGED <<config, pause, logging, last, grab, failed, threads, detail, query, missingFile, dest, pc, run, ending, leave, resume_page, total, i,
                   display, html, k, calls, reads, saves, replaced, torn, handled, cascade>>

\* the run that is followed to its end
OneRun == run = 0 /\ StartRun

\* the content read of scrape.py and scrape_local.py, whose loop has no poll
ReadUnpolled == impl # "all" /\ ReadContent

\* goPage(next_page) of scrape.py and scrape_local.py, with fallbacks behind it
PrimaryFirst == impl # "all" /\ Primary

\* a step of scraper_main: the operation it waits for has returned or failed
Step ==
    \/ ResumeSeek
    \/ DetermineTotal
    \/ ReadUnpolled
    \/ PausePoll
    \/ ReadWhenClear
    \/ ProcessAnchor
    \/ SaveOpen
    \/ SaveWrite
    \/ PrimaryFirst
    \/ PrimaryAll
    \/ NextButton
    \/ FallbackA
    \/ FallbackB
    \/ FallbackC
    \/ FallbackD
    \/ Close

LiveNext == EarlierRun \/ OneRun \/ Step \/ SetPause \/ ClearPause

\* every operation scraper_main waits for returns or fails (WF on Step); the
\* loop head polls once a second, so a flag that is clear again and again is
\* seen clear (SF on the read behind the poll); the flag is not left set
\* forever (WF on ClearPause)
LiveSpec ==
    /\ LiveInit
    /\ [][LiveNext]_vars
    /\ WF_vars(Step)
    /\ SF_vars(ReadWhenClear)
    /\ WF_vars(ClearPause)

\* C37: a run that was started comes to its end, Done or aborted (by the break
\* of the loop or by an exception that leaves scraper_main), and on the way the
\* loop has read at most total - resume_page + 1 pages, each content read has
\* made at most 2 attempts and each advance has tried at most 5 strategies.
C37_RunTerminates ==
    /\ [](/\ Len(reads) <= (IF total >= resume_page THEN total - resume_page + 1 ELSE 0)
          /\ (grab # <<>> => grab.tries \in 1..2)
          /\ Len(tried) <= 5)
    /\ (pc # "idle") ~> (pc = "idle" /\ outcome \in {"Done", "Aborted", "Raised"})

\* C37 witness: scrape_local.py resumed at page 2 of 3, a navigation strategy
\* failed on the way, and the run ended Done after 2 page iterations
C37_Witness ==
    /\ impl = "local"
    /\ pc = "idle"
    /\ outcome = "Done"
    /\ resume_page = 2
    /\ total = 3
    /\ Len(reads) = 2
    /\ ~smooth


(* ------------------------------ the log queue --------------------------- *)
\* the messages one model run hands to gui_log at most
MaxLog == 3

\* the marker around a bold name
BoldMark == <<"*","*">>

\* messages of upload_to_s3 and load_allowed_ids: a name in bold at the end,
\* a name in bold in the middle, no bold at all
MsgDownloading ==
    <<"D","o","w","n","l","o","a","d","i","n","g",":"," ","*","*","1","a","2","3",".","p","d",
      "f","*","*">>

MsgSkipping ==
    <<"S","k","i","p","p","i","n","g"," ","*","*","1","a","2","3",".","p","d","f","*","*"," ",
      "a","l","r","e","a","d","y"," ","e","x","i","s","t","s"," ","i","n"," ","S","3",".">>

MsgNoWorkbook ==
    <<"E","x","c","e","l"," ","f","i","l","e"," ","n","o","t"," ","f","o","u","n","d",":"," ",
      "g","e","o","m","a","s","t","e","r",".","x","l","s","x">>

LogMessages == {MsgDownloading, MsgSkipping, MsgNoWorkbook}

\* msg.split('**')
RECURSIVE SplitBold(_)
SplitBold(s) ==
    LET marks == {n \in 1..(Len(s) - 1) : SubSeq(s, n, n + 1) = BoldMark}
    IN  IF marks = {} THEN <<s>>
        ELSE LET n == CHOOSE n \in marks : \A m \in marks : n <= m
             IN  <<SubSeq(s, 1, n - 1)>> \o SplitBold(SubSeq(s, n + 2, Len(s)))

\* the parts update_log inserts for one message, each with its tag: the parts
\* at odd positions of the split (counted from 0) are bold
RenderLine(msg) ==
    LET parts == SplitBold(msg)
    IN  [idx \in DOMAIN parts |-> <<parts[idx], IF (idx - 1) % 2 = 1 THEN "bold" ELSE "none">>]

\* everything but the log
unlogged ==
    <<impl, ALLOWED_IDS, resumeFile, missingFile, dest, pc, run, outcome, stoppedAt, leave,
      resume_page, total, last, i, display, html, k, calls, reads, saves, held, replaced,
      torn, handled, strategy, tried, advLog, smooth, detail, grab, failed, query, threads,
      pause_event, polls>>

\* gui_log on a queue of one place: put waits while a message is pending
gui_log_bounded(msg) ==
    /\ Len(emitted) < MaxLog
    /\ Len(log_queue) < 1
    /\ log_queue' = Append(log_queue, msg)
    /\ emitted' = Append(emitted, msg)
    /\ UNCHANGED <<log_widget, gui, unlogged>>

\* gui_log(msg): log_queue.put(msg) on a queue without a size
gui_log(msg) ==
    /\ Len(emitted) < MaxLog
    /\ log_queue' = Append(log_queue, msg)
    /\ emitted' = Append(emitted, msg)
    /\ UNCHANGED <<log_widget, gui, unlogged>>

\* some part of the script logs a message
Emit == \E msg \in LogMessages : gui_log(msg)

\* root.after(100, update_log) falls due and update_log is entered
UpdateLogDue ==
    /\ gui = "wait"
    /\ gui' = "drain"
    /\ UNCHANGED <<log_queue, log_widget, emitted, unlogged>>

\* one turn of update_log's loop: the oldest message is taken and inserted
\* part by part, then a newline ends the line
UpdateLogTake ==
    /\ gui = "drain"
    /\ log_queue # <<>>
    /\ log_queue' = Tail(log_queue)
    /\ log_widget' = Append(log_widget, RenderLine(Head(log_queue)))
    /\ UNCHANGED <<emitted, gui, unlogged>>

\* log_queue.empty() holds: update_log arms the next call and returns
UpdateLogRearm ==
    /\ gui = "drain"
    /\ log_queue = <<>>
    /\ gui' = "wait"
    /\ UNCHANGED <<log_queue, log_widget, emitted, unlogged>>

LogNext == Emit \/ UpdateLogDue \/ UpdateLogTake \/ UpdateLogRearm

LogSpec == Init /\ [][LogNext]_vars

\* the message a line of the window was inserted for: its parts with the
\* marker between them
RECURSIVE JoinBold(_)
JoinBold(line) ==
    IF Len(line) = 1 THEN line[1][1]
    ELSE line[1][1] \o BoldMark \o JoinBold(Tail(line))

\* C38: gui_log can be called whatever is pending and wherever update_log
\* stands, each call queues its message once, and the lines of the window
\* followed by the pending messages are the messages in the order of the
\* calls: none is lost, doubled or moved, and bold falls on the names.
C38_LogFireAndForget ==
    /\ (Len(emitted) < MaxLog => ENABLED Emit)
    /\ [n \in DOMAIN log_widget |-> JoinBold(log_widget[n])] \o log_queue = emitted
    /\ \A n \in DOMAIN log_widget :
          \A idx \in DOMAIN log_widget[n] :
             log_widget[n][idx][2] = "bold" <=> idx % 2 = 0

\* C38 witness: three messages were logged while update_log was at work; two
\* are in the window, the first with its name in bold, the third is pending
C38_Witness ==
    /\ emitted = <<MsgSkipping, MsgNoWorkbook, MsgDownloading>>
    /\ Len(log_widget) = 2
    /\ Len(log_widget[1]) = 3
    /\ log_widget[1][2][2] = "bold"
    /\ log_queue = <<MsgDownloading>>
    /\ gui = "drain"

====
